---- MODULE Spec2Model ----
(***************************************************************************)
(* Attestation and indexing pipeline of the private expense tracker:       *)
(*   - ConfidentialExpenses (Solidity contract): userCids, attestedHashes, *)
(*     attestExpense, registerPublicKey and the view functions;            *)
(*   - EthListener (backend/src/services/ethListener.ts): start, stop,     *)
(*     processRecentEvents, handleExpenseAttested over the prisma          *)
(*     "expenses" table;                                                   *)
(*   - the seed script (backend/src/db/seed.ts);                           *)
(*   - the Query API (backend/src/routes/records.ts);                      *)
(*   - the Aggregation Service (backend/src/routes/coproc.ts,              *)
(*     backend/src/services/coprocService.ts, ipfsService.ts).             *)
(***************************************************************************)
EXTENDS Integers, Sequences, FiniteSets, Bags, TLC

(***************************************************************************)
(* Bounds of the model.                                                    *)
(***************************************************************************)
\* transactions sent to the contract in one behaviour
MaxTx == 3
\* largest value of the wall clock (seconds)
MaxClock == 2
\* transactions sent to the contract while the indexer is modelled
MaxIndexedTx == 2
\* calls of EthListener.start() in one behaviour
MaxStarts == 2
\* largest value of the wall clock while the indexer is modelled
MaxIndexedClock == 1
\* largest value of the wall clock while the Query API is modelled
MaxQueryClock == 2
\* transactions sent to the contract while the Query API is modelled
MaxQueryTx == 1
\* POST /aggregate requests in one behaviour
MaxRequests == 2
\* requests sent to the app while its middleware chain is modelled
MaxAppRequests == 1
\* calls of getZamaInstance in one behaviour
MaxSdkCalls == 3
\* calls of resetZamaInstance in one behaviour
MaxResets == 1
\* calls of the IPFS service in one behaviour
MaxIpfsCalls == 3
\* calls of start() while the database and the seed script are modelled too
MaxPipelineStarts == 1
\* height the chain is mined to while the backfill window is modelled
MaxBlocks == 12

(***************************************************************************)
(* Input domains.                                                          *)
(***************************************************************************)
\* msg.sender values, as ethers reports them (checksummed, mixed case)
Accounts == {"0xAbC1", "0xDeF2"}
\* bytes32 submission hashes
Hashes == {"0xh1", "0xh2"}
\* cid strings accepted by attestExpense: any string, the empty one included
Cids == {"", "QmSample1"}
\* txMeta byte strings
TxMetas == {"0x", "0x01"}
\* public keys for registerPublicKey
PublicKeys == {"0xpk"}

VARIABLES
  \* ---- chain / ConfidentialExpenses ----
  userCids,        \* mapping(address => string[])
  attestedHashes,  \* mapping(bytes32 => bool)
  eventLog,        \* the contract's emitted events (the chain's log), in order
  blockNumber,     \* height of the chain: one block per mined transaction
  lastTx,          \* receipt of the last transaction sent to the contract
  txCount,         \* number of transactions sent so far
  clock,           \* wall clock / block.timestamp source, in seconds
  \* ---- backend process: EthListener ----
  envOk,           \* SEPOLIA_RPC_URL and CONTRACT_ADDRESS are both set
  running,         \* state.running
  provider,        \* state.provider: "null" or "JsonRpcProvider"
  contract,        \* state.contract: 0 (null) or the number of the Contract object
  contractsMade,   \* Contract objects constructed so far
  listeners,       \* Contract objects holding an "ExpenseAttested" listener
  liveQueue,       \* events the provider still has to hand to a listener
  scans,           \* processRecentEvents invocations in progress
  handlers,        \* handleExpenseAttested invocations in flight (a bag)
  console,         \* the distinct lines the listener has logged
  delivered,       \* cids handleExpenseAttested has been called with
  startCount,      \* calls of start() so far
  \* ---- database ----
  expenses,        \* rows of table "expenses"
  seedPc,          \* samples the seed script has upserted so far
  \* ---- backend process: HTTP routes ----
  coprocUrl,       \* COPROCESSOR_URL as coprocService.ts read it at load
  agg,             \* the POST /aggregate request being served
  ioCalls,         \* outbound calls made so far: gateway, engine, mock
  httpRes,         \* the last HTTP response sent
  hits,            \* requests the rate limiter has counted in the current window
  \* ---- backend process: IPFSService ----
  pinataKeys,      \* PINATA_API_KEY and PINATA_SECRET_API_KEY are both set
  pinned,          \* the blobs pinned in the Content Store, with their cids
  issued,          \* the cids upload() has returned, and whether as a fallback
  ipfsRes,         \* outcome of the last upload() or retrieve()
  \* ---- frontend ----
  page,            \* the Verify page: isVerified and the toast it shows
  sdkInitialized,  \* zama-sdk: sdkInitialized
  sdkInstance,     \* zama-sdk: sdkInstance, 0 (null) or the number of the instance
  initPromise,     \* zama-sdk: initPromise, 0 (null) or the number of the promise
  inits,           \* the initialization closures getZamaInstance has started
  resets,          \* calls of resetZamaInstance so far
  lastGet,         \* what the last call of getZamaInstance returned
  createCalls,     \* calls of sdk.createInstance so far
  submission       \* the handleSubmit of the Add Expense form in progress

ledgerVars == <<userCids, attestedHashes, eventLog, blockNumber, lastTx, txCount>>

listenerVars == <<envOk, running, provider, contract, contractsMade, listeners,
                  liveQueue, scans, handlers, console, delivered, startCount>>

dbVars == <<expenses, seedPc>>

ipfsVars == <<pinataKeys, pinned, issued, ipfsRes>>

sdkVars == <<sdkInitialized, sdkInstance, initPromise, inits, resets, lastGet, createCalls>>

clientVars == <<ipfsVars, sdkVars, submission>>

webVars == <<hits, page, clientVars>>

apiVars == <<coprocUrl, agg, ioCalls, httpRes, webVars>>

vars == <<userCids, attestedHashes, eventLog, blockNumber, lastTx, txCount, clock,
          envOk, running, provider, contract, contractsMade, listeners,
          liveQueue, scans, handlers, console, delivered, startCount, expenses,
          seedPc, coprocUrl, agg, ioCalls, httpRes, hits, page, pinataKeys,
          pinned, issued, ipfsRes, sdkInitialized, sdkInstance, initPromise, inits,
          resets, lastGet, createCalls, submission>>

NoTx == [fn |-> "none"]

(***************************************************************************)
(* Sequence helpers.                                                       *)
(***************************************************************************)
IsPrefix(s, t) == Len(s) <= Len(t) /\ SubSeq(t, 1, Len(s)) = s

RECURSIVE MapCid(_)
MapCid(evs) == IF evs = <<>> THEN <<>> ELSE <<Head(evs).cid>> \o MapCid(Tail(evs))

(***************************************************************************)
(* ConfidentialExpenses                                                    *)
(***************************************************************************)
\* a require that lets every call pass
attestRequire_NoCheck(sender, submissionHash, cid, txMeta) == TRUE

\* a require that also rejects the empty cid
attestRequire_NonEmptyCid(sender, submissionHash, cid, txMeta) ==
  ~attestedHashes[submissionHash] /\ cid # ""

\* the require statements of attestExpense: there is exactly one,
\* require(!attestedHashes[submissionHash], "Already attested")
attestRequire(sender, submissionHash, cid, txMeta) == ~attestedHashes[submissionHash]

\* a push that puts the cid in front
pushCid_Prepend(sender, cid) == [userCids EXCEPT ![sender] = <<cid>> \o @]

\* a push into a list shared by every account
pushCid_Shared(sender, cid) == [a \in Accounts |-> Append(userCids[a], cid)]

\* userCids[msg.sender].push(cid)
pushCid(sender, cid) == [userCids EXCEPT ![sender] = Append(@, cid)]

\* attestedHashes[submissionHash] = true
markAttested(submissionHash) == [attestedHashes EXCEPT ![submissionHash] = TRUE]

\* emit ExpenseAttested(msg.sender, submissionHash, cid, block.timestamp, txMeta)
ExpenseAttested(sender, submissionHash, cid, txMeta) ==
  [name |-> "ExpenseAttested", user |-> sender, submissionHash |-> submissionHash,
   cid |-> cid, timestamp |-> clock, txMeta |-> txMeta, blockNumber |-> blockNumber + 1]

\* emit PublicKeyRegistered(msg.sender, publicKey)
PublicKeyRegistered(sender, publicKey) ==
  [name |-> "PublicKeyRegistered", user |-> sender, publicKey |-> publicKey,
   blockNumber |-> blockNumber + 1]

\* one transaction calling attestExpense; a failed require reverts every effect
attestExpense(sender, submissionHash, cid, txMeta) ==
  /\ txCount < MaxTx
  /\ txCount' = txCount + 1
  /\ blockNumber' = blockNumber + 1
  /\ IF attestRequire(sender, submissionHash, cid, txMeta)
       THEN /\ userCids' = pushCid(sender, cid)
            /\ attestedHashes' = markAttested(submissionHash)
            /\ eventLog' = Append(eventLog, ExpenseAttested(sender, submissionHash, cid, txMeta))
            /\ lastTx' = [fn |-> "attestExpense", sender |-> sender,
                          submissionHash |-> submissionHash, cid |-> cid,
                          txMeta |-> txMeta, status |-> "success", reason |-> "",
                          nonce |-> txCount']
       ELSE /\ UNCHANGED <<userCids, attestedHashes, eventLog>>
            /\ lastTx' = [fn |-> "attestExpense", sender |-> sender,
                          submissionHash |-> submissionHash, cid |-> cid,
                          txMeta |-> txMeta, status |-> "reverted",
                          reason |-> "Already attested", nonce |-> txCount']

\* one transaction calling registerPublicKey: only the event
registerPublicKey(sender, publicKey) ==
  /\ txCount < MaxTx
  /\ txCount' = txCount + 1
  /\ blockNumber' = blockNumber + 1
  /\ eventLog' = Append(eventLog, PublicKeyRegistered(sender, publicKey))
  /\ lastTx' = [fn |-> "registerPublicKey", sender |-> sender, publicKey |-> publicKey,
                status |-> "success", reason |-> "", nonce |-> txCount']
  /\ UNCHANGED <<userCids, attestedHashes>>

\* view functions
getUserCids(user) == userCids[user]

isAttested(submissionHash) == attestedHashes[submissionHash]

getUserAttestationCount(user) == Len(userCids[user])

\* the wall clock advances
Tick ==
  /\ clock < MaxClock
  /\ clock' = clock + 1
  /\ UNCHANGED ledgerVars

(***************************************************************************)
(* Specification of the contract alone.                                    *)
(***************************************************************************)
InitLedger ==
  /\ userCids = [a \in Accounts |-> <<>>]
  /\ attestedHashes = [h \in Hashes |-> FALSE]
  /\ eventLog = <<>>
  /\ blockNumber = 0
  /\ lastTx = NoTx
  /\ txCount = 0
  /\ clock = 0

\* the backend process before start(): module state of ethListener.ts
InitListener ==
  /\ running = FALSE
  /\ provider = "null"
  /\ contract = 0
  /\ contractsMade = 0
  /\ listeners = {}
  /\ liveQueue = <<>>
  /\ scans = {}
  /\ handlers = EmptyBag
  /\ console = {}
  /\ delivered = {}
  /\ startCount = 0

\* the table after the migration, the seed script not yet run
InitDb ==
  /\ expenses = {}
  /\ seedPc = 0

\* the HTTP routes before the first request; no engine URL configured
NoAgg == [pc |-> "idle"]

NoResponse == [status |-> 0]

NoCalls == [requests |-> 0, gateway |-> 0, engine |-> 0, mock |-> 0]

\* the Verify page before its first verification
NoPage == [cid |-> "", isVerified |-> "null", toast |-> "", proofData |-> {}]

\* no call of getZamaInstance yet
NoGet == [n |-> 0, ret |-> "none", id |-> 0, fresh |-> FALSE, epoch |-> 0]

\* the zama-sdk module as loaded
InitSdk ==
  /\ sdkInitialized = FALSE
  /\ sdkInstance = 0
  /\ initPromise = 0
  /\ inits = <<>>
  /\ resets = 0
  /\ lastGet = NoGet
  /\ createCalls = 0

\* no call of the IPFS service yet
NoIpfsRes == [n |-> 0, op |-> "none"]

\* the Add Expense form before a submit
NoSubmission == [pc |-> "idle"]

\* an empty Content Store, no pinning keys configured, an idle frontend
InitClient ==
  /\ pinataKeys = FALSE
  /\ pinned = {}
  /\ issued = {}
  /\ ipfsRes = NoIpfsRes
  /\ InitSdk
  /\ submission = NoSubmission

\* an empty rate-limit window and an untouched frontend
InitWeb ==
  /\ hits = 0
  /\ page = NoPage
  /\ InitClient

InitApi ==
  /\ coprocUrl = ""
  /\ agg = NoAgg
  /\ ioCalls = NoCalls
  /\ httpRes = NoResponse
  /\ InitWeb

Init ==
  /\ InitLedger
  /\ InitListener
  /\ InitDb
  /\ InitApi
  /\ envOk \in BOOLEAN

InitLedgerOnly ==
  /\ InitLedger
  /\ InitListener
  /\ InitDb
  /\ InitApi
  /\ envOk = TRUE

SendAttest ==
  \E a \in Accounts, h \in Hashes, c \in Cids, m \in TxMetas : attestExpense(a, h, c, m)

SendRegister ==
  \E a \in Accounts, k \in PublicKeys : registerPublicKey(a, k)

NextLedger ==
  \/ SendAttest /\ UNCHANGED <<clock, listenerVars, dbVars, apiVars>>
  \/ SendRegister /\ UNCHANGED <<clock, listenerVars, dbVars, apiVars>>
  \/ Tick /\ UNCHANGED <<listenerVars, dbVars, apiVars>>

SpecLedger == InitLedgerOnly /\ [][NextLedger]_vars

(***************************************************************************)
(* Properties of the contract (checked under SpecLedger).                  *)
(***************************************************************************)
\* the step is one transaction calling attestExpense
IsAttestTx == txCount' # txCount /\ lastTx'.fn = "attestExpense"

\* the step is one transaction calling registerPublicKey
IsRegisterTx == txCount' # txCount /\ lastTx'.fn = "registerPublicKey"

\* the ExpenseAttested events of the log
AttestEvents == SelectSeq(eventLog, LAMBDA e : e.name = "ExpenseAttested")

\* positions of the log holding an ExpenseAttested event for fingerprint f
AttestIndexesOf(f) ==
  {i \in 1..Len(eventLog) :
     eventLog[i].name = "ExpenseAttested" /\ eventLog[i].submissionHash = f}

\* the ExpenseAttested events of account u, in log order
AttestEventsBy(u) ==
  SelectSeq(eventLog, LAMBDA e : e.name = "ExpenseAttested" /\ e.user = u)

\* C1: for every fingerprint f the first attestExpense(f, ...) succeeds and
\* every later one, from any account and with any cid, is rejected with
\* "Already attested"; isAttested(f) is true after the first call and stays
\* true; a rejected call appends no cid and emits no event (there is exactly
\* one ExpenseAttested event per attested fingerprint).
C1_DuplicateRejected ==
  /\ [](\A f \in Hashes :
          Cardinality(AttestIndexesOf(f)) = (IF isAttested(f) THEN 1 ELSE 0))
  /\ [][ /\ \A f \in Hashes : isAttested(f) => isAttested(f)'
         /\ IsAttestTx =>
              LET f == lastTx'.submissionHash IN
              /\ attestedHashes'[f]
              /\ ~isAttested(f) => lastTx'.status = "success"
              /\ isAttested(f) =>
                   /\ lastTx'.status = "reverted"
                   /\ lastTx'.reason = "Already attested"
                   /\ UNCHANGED <<userCids, attestedHashes, eventLog>> ]_vars

\* C1 witness: a second attestExpense with an attested fingerprint, sent by
\* another account with another cid, has been rejected
C1_Witness ==
  /\ lastTx.fn = "attestExpense"
  /\ lastTx.status = "reverted"
  /\ \E i \in AttestIndexesOf(lastTx.submissionHash) :
        eventLog[i].user # lastTx.sender /\ eventLog[i].cid # lastTx.cid

C7_AppendOnly ==
  /\ [](\A u \in Accounts :
          /\ getUserCids(u) = MapCid(AttestEventsBy(u))
          /\ getUserAttestationCount(u) = Len(AttestEventsBy(u)))
  /\ [][ /\ \A u \in Accounts : IsPrefix(getUserCids(u), getUserCids(u)')
         /\ \A f \in Hashes : isAttested(f) => isAttested(f)'
         /\ IsRegisterTx => UNCHANGED <<userCids, attestedHashes>> ]_vars

\* C7 witness: one account holds two different cids and a registerPublicKey
\* transaction has just been mined
C7_Witness ==
  /\ lastTx.fn = "registerPublicKey"
  /\ \E u \in Accounts :
        getUserAttestationCount(u) = 2 /\ getUserCids(u)[1] # getUserCids(u)[2]

\* C8: the duplicate check is the only failure of attestExpense: with a
\* fingerprint not yet attested it succeeds for every caller, cid and txMeta.
C8_OnlyDuplicateFails ==
  [][ IsAttestTx =>
        (lastTx'.status = "reverted" => isAttested(lastTx'.submissionHash)) ]_vars

\* C8 witness: an attestation with the empty cid has succeeded although the
\* empty cid was already recorded by another account under another fingerprint
C8_Witness ==
  /\ lastTx.fn = "attestExpense"
  /\ lastTx.status = "success"
  /\ lastTx.cid = ""
  /\ \E i \in 1..Len(eventLog) :
        /\ eventLog[i].name = "ExpenseAttested"
        /\ eventLog[i].cid = ""
        /\ eventLog[i].user # lastTx.sender
        /\ eventLog[i].submissionHash # lastTx.submissionHash

(***************************************************************************)
(* Table "expenses" and the prisma upsert of handleExpenseAttested.        *)
(***************************************************************************)
\* SQL NULL
Null == "<null>"

\* String.prototype.toLowerCase on the addresses of the model
toLowerCase(str) ==
  CASE str = "0xAbC1" -> "0xabc1"
    [] str = "0xDeF2" -> "0xdef2"
    [] str = "0x742d35Cc6634C0532925a3b844Bc9e7595f0bEb" ->
         "0x742d35cc6634c0532925a3b844bc9e7595f0beb"
    [] OTHER -> str

\* new Date(Number(timestamp) * 1000): seconds to milliseconds
toDate(timestamp) == timestamp * 1000

\* CURRENT_TIMESTAMP / the client's "now", in milliseconds
nowMs(now) == now * 1000

\* the rows of tbl with the given cid
rowsOf(tbl, cid) == {r \in tbl : r.cid = cid}

\* INTEGER PRIMARY KEY AUTOINCREMENT: no row is ever deleted
nextRowId(tbl) == Cardinality(tbl) + 1

\* a table with no unique index
uniqueViolation_NoIndex(tbl, cid, submissionHash) == FALSE

\* the unique indexes expenses_cid_key and expenses_submissionHash_key:
\* an INSERT of (cid, submissionHash) is refused when either is taken
uniqueViolation(tbl, cid, submissionHash) ==
  \E r \in tbl : r.cid = cid \/ r.submissionHash = submissionHash

\* the create block of the upsert: the inserted row
createData(tbl, h, now) ==
  [id |-> nextRowId(tbl),
   userAddress |-> toLowerCase(h.user),
   cid |-> h.cid,
   submissionHash |-> h.submissionHash,
   txHash |-> "pending",
   blockNumber |-> Null,
   timestamp |-> toDate(h.timestamp),
   category |-> Null,
   note |-> Null,
   status |-> "confirmed",
   createdAt |-> nowMs(now),
   updatedAt |-> nowMs(now)]

\* an update block that takes every column from the event
updateData_Overwrite(r, h, now) ==
  [r EXCEPT !.userAddress = toLowerCase(h.user), !.submissionHash = h.submissionHash,
            !.timestamp = toDate(h.timestamp), !.status = "confirmed",
            !.updatedAt = nowMs(now)]

\* an update block that resets the status
updateData_Pending(r, h, now) == [r EXCEPT !.status = "pending", !.updatedAt = nowMs(now)]

\* the update block of the upsert: status only; updatedAt (NOT NULL, no
\* default, not given by create) is the column the client stamps on each write
updateData(r, h, now) == [r EXCEPT !.status = "confirmed", !.updatedAt = nowMs(now)]

\* first half of prisma.expense.upsert: is there a row where { cid }?
upsertFind(tbl, h) == rowsOf(tbl, h.cid) # {}

\* second half: UPDATE when a row was found, INSERT otherwise; the INSERT
\* throws when a unique index refuses it
upsertWrite(tbl, h, found, now) ==
  IF found
    THEN [threw |-> FALSE,
          table |-> {IF r.cid = h.cid THEN updateData(r, h, now) ELSE r : r \in tbl}]
    ELSE IF uniqueViolation(tbl, h.cid, h.submissionHash)
           THEN [threw |-> TRUE, table |-> tbl]
           ELSE [threw |-> FALSE, table |-> tbl \cup {createData(tbl, h, now)}]

\* handleExpenseAttested run alone from start to end without a persistence
\* error: the table it leaves
handleExpenseAttested(tbl, h, now) == upsertWrite(tbl, h, upsertFind(tbl, h), now).table

(***************************************************************************)
(* The seed script: one upsert per sample, update: {}.                     *)
(***************************************************************************)
sampleExpenses ==
  << [userAddress |-> "0x742d35Cc6634C0532925a3b844Bc9e7595f0bEb", cid |-> "QmSample1",
      submissionHash |-> "0x1234...", txHash |-> "0xabc...", blockNumber |-> "12345",
      category |-> "food", note |-> "Sample food expense", status |-> "confirmed"],
     [userAddress |-> "0x742d35Cc6634C0532925a3b844Bc9e7595f0bEb", cid |-> "QmSample2",
      submissionHash |-> "0x5678...", txHash |-> "0xdef...", blockNumber |-> "12346",
      category |-> "transport", note |-> "Sample transport expense", status |-> "confirmed"] >>

\* the row the seed's create block inserts; timestamp and createdAt take the
\* column default CURRENT_TIMESTAMP
seedCreate(tbl, e, now) ==
  [id |-> nextRowId(tbl), userAddress |-> e.userAddress, cid |-> e.cid,
   submissionHash |-> e.submissionHash, txHash |-> e.txHash,
   blockNumber |-> e.blockNumber, timestamp |-> nowMs(now), category |-> e.category,
   note |-> e.note, status |-> e.status, createdAt |-> nowMs(now),
   updatedAt |-> nowMs(now)]

\* an update block that resets the status of the row
seedUpdate_Pending(r, stamp, now) == [r EXCEPT !.status = "pending"]

\* the seed's update block {}: no column is set; whether the client still
\* stamps updatedAt on an empty update is left open (stamp)
seedUpdate(r, stamp, now) == IF stamp THEN [r EXCEPT !.updatedAt = nowMs(now)] ELSE r

\* one iteration of the seed loop; a refused INSERT ends the script
seedUpsert(stamp) ==
  /\ seedPc < Len(sampleExpenses)
  /\ LET e == sampleExpenses[seedPc + 1] IN
     IF rowsOf(expenses, e.cid) # {}
       THEN /\ expenses' = {IF r.cid = e.cid THEN seedUpdate(r, stamp, clock) ELSE r :
                              r \in expenses}
            /\ seedPc' = seedPc + 1
       ELSE IF uniqueViolation(expenses, e.cid, e.submissionHash)
              THEN /\ expenses' = expenses
                   /\ seedPc' = Len(sampleExpenses)
              ELSE /\ expenses' = expenses \cup {seedCreate(expenses, e, clock)}
                   /\ seedPc' = seedPc + 1

(***************************************************************************)
(* EthListener                                                             *)
(***************************************************************************)
\* the trailing window of processRecentEvents, in blocks
BackfillWindow == 10

\* outcomes of the try block of start() before the first await
StartOutcomes == {"ok", "providerThrows", "contractThrows", "subscribeThrows"}

Max(a, b) == IF a >= b THEN a ELSE b

RECURSIVE SetToSeq(_)
SetToSeq(S) ==
  IF S = {} THEN <<>>
  ELSE LET m == CHOOSE x \in S : \A y \in S : x <= y IN <<m>> \o SetToSeq(S \ {m})

RECURSIVE QueueFor(_, _)
QueueFor(subs, ev) ==
  IF subs = <<>> THEN <<>>
  ELSE <<[sub |-> Head(subs), ev |-> ev]>> \o QueueFor(Tail(subs), ev)

\* a running check that never finds the listener running
alreadyRunning_Never == FALSE

\* if (state.running) { ... return; }
alreadyRunning == running

\* an invocation of handleExpenseAttested(user, submissionHash, cid, timestamp,
\* txMeta); txMeta is never read and is left out. src is 0 for the live
\* listener and the scan's number for processRecentEvents
newHandler(src, ev) ==
  [src |-> src, user |-> ev.user, submissionHash |-> ev.submissionHash,
   cid |-> ev.cid, timestamp |-> ev.timestamp, pc |-> "find", found |-> FALSE]

\* a range query that leaves out the first block of the range
queryFilter_Exclusive(fromBlock, toBlock) ==
  SelectSeq(eventLog, LAMBDA e : /\ e.name = "ExpenseAttested"
                                 /\ fromBlock < e.blockNumber
                                 /\ e.blockNumber <= toBlock)

\* contract.queryFilter(filters.ExpenseAttested(), fromBlock, currentBlock)
queryFilter(fromBlock, toBlock) ==
  SelectSeq(eventLog, LAMBDA e : /\ e.name = "ExpenseAttested"
                                 /\ fromBlock <= e.blockNumber
                                 /\ e.blockNumber <= toBlock)

\* a start() that sets state.running before it creates the provider, the
\* contract and the subscription
start_RunningEarly(outcome) ==
  /\ startCount < MaxStarts
  /\ startCount' = startCount + 1
  /\ UNCHANGED <<envOk, liveQueue, handlers, delivered>>
  /\ IF running
       THEN /\ console' = console \cup {<<"log", "Listener already running", "">>}
            /\ UNCHANGED <<running, provider, contract, contractsMade, listeners, scans>>
       ELSE IF ~envOk
         THEN /\ console' = console \cup {<<"error", "Missing RPC_URL or CONTRACT_ADDRESS", "">>}
              /\ UNCHANGED <<running, provider, contract, contractsMade, listeners, scans>>
       ELSE IF outcome = "providerThrows"
         THEN /\ running' = TRUE
              /\ console' = console \cup {<<"error", "Failed to start listener", "">>}
              /\ UNCHANGED <<provider, contract, contractsMade, listeners, scans>>
       ELSE IF outcome = "contractThrows"
         THEN /\ running' = TRUE
              /\ provider' = "JsonRpcProvider"
              /\ console' = console \cup {<<"error", "Failed to start listener", "">>}
              /\ UNCHANGED <<contract, contractsMade, listeners, scans>>
       ELSE IF outcome = "subscribeThrows"
         THEN /\ running' = TRUE
              /\ provider' = "JsonRpcProvider"
              /\ contractsMade' = contractsMade + 1
              /\ contract' = contractsMade'
              /\ console' = console \cup {<<"error", "Failed to start listener", "">>}
              /\ UNCHANGED <<listeners, scans>>
         ELSE /\ provider' = "JsonRpcProvider"
              /\ console' = console \cup {<<"log", "Ethereum listener started", "">>}
              /\ contractsMade' = contractsMade + 1
              /\ contract' = contractsMade'
              /\ listeners' = listeners \cup {contract'}
              /\ running' = TRUE
              /\ scans' = scans \cup {[id |-> contract', pc |-> "queryFilter",
                                        events |-> <<>>]}

\* start(): everything up to the await of processRecentEvents runs in one
\* turn; a throw of the provider, of the Contract constructor or of
\* contract.on lands in the catch before state.running is set
start(outcome) ==
  /\ startCount < MaxStarts
  /\ startCount' = startCount + 1
  /\ UNCHANGED <<envOk, liveQueue, handlers, delivered>>
  /\ IF alreadyRunning
       THEN /\ console' = console \cup {<<"log", "Listener already running", "">>}
            /\ UNCHANGED <<running, provider, contract, contractsMade, listeners, scans>>
       ELSE IF ~envOk
         THEN /\ console' = console \cup {<<"error", "Missing RPC_URL or CONTRACT_ADDRESS", "">>}
              /\ UNCHANGED <<running, provider, contract, contractsMade, listeners, scans>>
       ELSE IF outcome = "providerThrows"
         THEN /\ console' = console \cup {<<"error", "Failed to start listener", "">>}
              /\ UNCHANGED <<running, provider, contract, contractsMade, listeners, scans>>
       ELSE IF outcome = "contractThrows"
         THEN /\ provider' = "JsonRpcProvider"
              /\ console' = console \cup {<<"error", "Failed to start listener", "">>}
              /\ UNCHANGED <<running, contract, contractsMade, listeners, scans>>
       ELSE IF outcome = "subscribeThrows"
         THEN /\ provider' = "JsonRpcProvider"
              /\ contractsMade' = contractsMade + 1
              /\ contract' = contractsMade'
              /\ console' = console \cup {<<"error", "Failed to start listener", "">>}
              /\ UNCHANGED <<running, listeners, scans>>
         ELSE /\ provider' = "JsonRpcProvider"
              /\ console' = console \cup {<<"log", "Ethereum listener started", "">>}
              /\ contractsMade' = contractsMade + 1
              /\ contract' = contractsMade'
              /\ listeners' = listeners \cup {contract'}
              /\ running' = TRUE
              /\ scans' = scans \cup {[id |-> contract', pc |-> "queryFilter",
                                        events |-> <<>>]}

\* stop(): removeAllListeners on the current Contract object
stop ==
  /\ UNCHANGED <<envOk, provider, contract, contractsMade, scans, handlers, delivered,
                 startCount>>
  /\ IF running /\ contract # 0
       THEN /\ listeners' = listeners \ {contract}
            /\ liveQueue' = SelectSeq(liveQueue, LAMBDA q : q.sub # contract)
            /\ running' = FALSE
            /\ console' = console \cup {<<"log", "Ethereum listener stopped", "">>}
       ELSE UNCHANGED <<running, listeners, liveQueue, console>>

\* a provider that reports nothing
notifyListeners_Deaf == liveQueue' = liveQueue

\* the provider reports an emitted event to the listeners registered for it
notifyListeners ==
  liveQueue' =
    IF Len(eventLog') > Len(eventLog) /\ eventLog'[Len(eventLog')].name = "ExpenseAttested"
      THEN liveQueue \o QueueFor(SetToSeq(listeners), eventLog'[Len(eventLog')])
      ELSE liveQueue

\* the listener callback of contract.on("ExpenseAttested", ...) is invoked
liveDeliver ==
  /\ liveQueue # <<>>
  /\ Head(liveQueue).sub \in listeners
  /\ handlers' = handlers (+) SetToBag({newHandler(0, Head(liveQueue).ev)})
  /\ delivered' = delivered \cup {Head(liveQueue).ev.cid}
  /\ liveQueue' = Tail(liveQueue)
  /\ UNCHANGED <<envOk, running, provider, contract, contractsMade, listeners, scans,
                 console, startCount>>

\* processRecentEvents: await provider.getBlockNumber(), then await
\* contract.queryFilter(...) over [max(0, currentBlock - 10), currentBlock];
\* the log is append-only, so the answer does not depend on when it is asked
scanQueryFilter(sc) ==
  /\ sc.pc = "queryFilter"
  /\ LET currentBlock == blockNumber
         fromBlock == Max(0, currentBlock - BackfillWindow)
     IN scans' = (scans \ {sc}) \cup
                   {[sc EXCEPT !.pc = "loop",
                               !.events = queryFilter(fromBlock, currentBlock)]}
  /\ UNCHANGED <<envOk, running, provider, contract, contractsMade, listeners,
                 liveQueue, handlers, console, delivered, startCount>>

\* processRecentEvents: the for loop calls handleExpenseAttested for the next
\* event and awaits it, or ends; start() then logs and returns
scanLoop(sc) ==
  /\ sc.pc = "loop"
  /\ IF sc.events = <<>>
       THEN /\ scans' = scans \ {sc}
            /\ console' = console \cup {<<"log", "Historical events processed", "">>}
            /\ UNCHANGED <<handlers, delivered>>
       ELSE /\ scans' = (scans \ {sc}) \cup
                          {[sc EXCEPT !.pc = "handling", !.events = Tail(sc.events)]}
            /\ handlers' = handlers (+) SetToBag({newHandler(sc.id, Head(sc.events))})
            /\ delivered' = delivered \cup {Head(sc.events).cid}
            /\ UNCHANGED console
  /\ UNCHANGED <<envOk, running, provider, contract, contractsMade, listeners,
                 liveQueue, startCount>>

\* processRecentEvents: an RPC call throws; the catch logs and ends the scan,
\* and start() logs and returns as after a finished scan
scanThrows(sc) ==
  /\ sc.pc = "queryFilter"
  /\ scans' = scans \ {sc}
  /\ console' = console \cup {<<"error", "Error processing recent events", "">>,
                                <<"log", "Historical events processed", "">>}
  /\ UNCHANGED <<envOk, running, provider, contract, contractsMade, listeners,
                 liveQueue, handlers, delivered, startCount>>

\* an error of handler h that reaches the catch of processRecentEvents: the
\* scan awaiting h ends
resumeScan_Abort(h) == {sc \in scans : ~(sc.id = h.src /\ sc.pc = "handling")}

\* the scan awaiting handler h goes on with its loop
resumeScan(h) ==
  {IF sc.id = h.src /\ sc.pc = "handling" THEN [sc EXCEPT !.pc = "loop"] ELSE sc :
     sc \in scans}

\* handleExpenseAttested: the upsert looks the cid up
handlerFind(h) ==
  /\ h.pc = "find"
  /\ handlers' = (handlers (-) SetToBag({h})) (+)
                   SetToBag({[h EXCEPT !.pc = "write", !.found = upsertFind(expenses, h)]})
  /\ UNCHANGED <<envOk, running, provider, contract, contractsMade, listeners,
                 liveQueue, scans, console, delivered, startCount, expenses>>

\* a handler that inserts whatever the unique index says
handlerWrite_Unchecked(h) ==
  /\ h.pc = "write"
  /\ expenses' = IF h.found
                   THEN upsertWrite(expenses, h, h.found, clock).table
                   ELSE expenses \cup {createData(expenses, h, clock)}
  /\ console' = console \cup {<<"log", "Indexed expense", <<h.cid, h.user>>>>}
  /\ handlers' = handlers (-) SetToBag({h})
  /\ scans' = resumeScan(h)
  /\ UNCHANGED <<envOk, running, provider, contract, contractsMade, listeners,
                 liveQueue, delivered, startCount>>

\* handleExpenseAttested: the upsert writes, then the handler logs and returns;
\* a refused INSERT is caught and logged
handlerWrite(h) ==
  /\ h.pc = "write"
  /\ LET res == upsertWrite(expenses, h, h.found, clock) IN
     /\ expenses' = res.table
     /\ console' = console \cup
                     {IF res.threw
                        THEN <<"error", "Error handling event", "Unique constraint failed">>
                        ELSE <<"log", "Indexed expense", <<h.cid, h.user>>>>}
  /\ handlers' = handlers (-) SetToBag({h})
  /\ scans' = resumeScan(h)
  /\ UNCHANGED <<envOk, running, provider, contract, contractsMade, listeners,
                 liveQueue, delivered, startCount>>

\* handleExpenseAttested: the database call fails; the catch logs and returns
handlerThrows(h) ==
  /\ console' = console \cup {<<"error", "Error handling event", "database unavailable">>}
  /\ handlers' = handlers (-) SetToBag({h})
  /\ scans' = resumeScan(h)
  /\ UNCHANGED <<envOk, running, provider, contract, contractsMade, listeners,
                 liveQueue, delivered, startCount, expenses>>

(***************************************************************************)
(* Specification of the chain, the listener and the database together.     *)
(***************************************************************************)
\* the attestations sent while the indexer is modelled: two accounts, two
\* fingerprints, the same cid twice and a second cid
IndexedInputs ==
  {<<"0xAbC1", "0xh1", "QmSample1">>, <<"0xDeF2", "0xh2", "QmSample1">>,
   <<"0xDeF2", "0xh2", "">>}

ChainAttest ==
  /\ txCount < MaxIndexedTx
  /\ \E i \in IndexedInputs : attestExpense(i[1], i[2], i[3], "0x")
  /\ notifyListeners
  /\ UNCHANGED <<clock, envOk, running, provider, contract, contractsMade, listeners,
                 scans, handlers, console, delivered, startCount, dbVars, apiVars>>

ChainRegister ==
  /\ txCount < MaxIndexedTx
  /\ registerPublicKey("0xAbC1", "0xpk")
  /\ notifyListeners
  /\ UNCHANGED <<clock, envOk, running, provider, contract, contractsMade, listeners,
                 scans, handlers, console, delivered, startCount, dbVars, apiVars>>

Start == \E o \in StartOutcomes : start(o) /\ UNCHANGED <<ledgerVars, clock, dbVars, apiVars>>

Stop == stop /\ UNCHANGED <<ledgerVars, clock, dbVars, apiVars>>

LiveDeliver == liveDeliver /\ UNCHANGED <<ledgerVars, clock, dbVars, apiVars>>

ScanQueryFilter ==
  \E sc \in scans : scanQueryFilter(sc) /\ UNCHANGED <<ledgerVars, clock, dbVars, apiVars>>

ScanLoop == \E sc \in scans : scanLoop(sc) /\ UNCHANGED <<ledgerVars, clock, dbVars, apiVars>>

ScanThrows == \E sc \in scans : scanThrows(sc) /\ UNCHANGED <<ledgerVars, clock, dbVars, apiVars>>

HandlerFind ==
  \E h \in BagToSet(handlers) : handlerFind(h) /\ UNCHANGED <<ledgerVars, clock, seedPc, apiVars>>

HandlerWrite ==
  \E h \in BagToSet(handlers) : handlerWrite(h) /\ UNCHANGED <<ledgerVars, clock, seedPc, apiVars>>

HandlerThrows ==
  \E h \in BagToSet(handlers) : handlerThrows(h) /\ UNCHANGED <<ledgerVars, clock, seedPc, apiVars>>

Seed ==
  \E stamp \in BOOLEAN : seedUpsert(stamp) /\ UNCHANGED <<ledgerVars, clock, listenerVars, apiVars>>

\* GET /api/records, /api/records/:cid and /api/records/proof/:cid only read
\* the table (findMany, findUnique)
QueryRead ==
  /\ \E c \in Cids \cup {"QmSample2"} : rowsOf(expenses, c) \in SUBSET expenses
  /\ UNCHANGED vars

\* chain, listener, database, seed script and reads; one start() call
Next ==
  \/ ChainAttest
  \/ ChainRegister
  \/ Tick /\ clock < MaxIndexedClock /\ UNCHANGED <<listenerVars, dbVars, apiVars>>
  \/ Start /\ startCount < MaxPipelineStarts
  \/ Stop
  \/ LiveDeliver
  \/ ScanQueryFilter
  \/ ScanLoop
  \/ ScanThrows
  \/ HandlerFind
  \/ HandlerWrite
  \/ HandlerThrows
  \/ Seed
  \/ QueryRead

Spec == Init /\ [][Next]_vars

\* chain and listener with restarts; the clock stands still and the seed
\* script is not run
NextLifecycle ==
  \/ ChainAttest
  \/ ChainRegister
  \/ Start
  \/ Stop
  \/ LiveDeliver
  \/ ScanQueryFilter
  \/ ScanLoop
  \/ ScanThrows
  \/ HandlerFind
  \/ HandlerWrite
  \/ HandlerThrows

SpecLifecycle == Init /\ [][NextLifecycle]_vars

\* the chain grows by a block that holds no transaction of the contract
MineBlock ==
  /\ blockNumber < MaxBlocks
  /\ blockNumber' = blockNumber + 1
  /\ UNCHANGED <<userCids, attestedHashes, eventLog, lastTx, txCount, clock,
                 listenerVars, dbVars, apiVars>>

\* attestations are sent while the listener is down and the chain goes on;
\* then start() is called once and its backfill scan runs
NextBackfill ==
  \/ ChainAttest /\ ~running
  \/ MineBlock
  \/ Start /\ startCount < MaxPipelineStarts
  \/ ScanQueryFilter
  \/ ScanLoop
  \/ ScanThrows
  \/ HandlerFind
  \/ HandlerWrite
  \/ HandlerThrows

SpecBackfill == Init /\ [][NextBackfill]_vars

(***************************************************************************)
(* Query API: GET /api/records, /api/records/:cid, /api/records/proof/:cid *)
(***************************************************************************)
\* a query parameter or property that is absent
Undefined == "<undefined>"

\* parseInt(limit): the number, or NaN
parseInt(str) ==
  CASE str = "1" -> [nan |-> FALSE, n |-> 1]
    [] str = "2" -> [nan |-> FALSE, n |-> 2]
    [] str = "50" -> [nan |-> FALSE, n |-> 50]
    [] str = "0" -> [nan |-> FALSE, n |-> 0]
    [] str = "-1" -> [nan |-> FALSE, n |-> 0 - 1]
    [] OTHER -> [nan |-> TRUE, n |-> 0]

\* const { limit = "50", category, userAddress } = req.query
ListQueries ==
  [limit : {Undefined, "1", "0", "-1", "abc"},
   category : {Undefined, "food"},
   userAddress : {Undefined, "0xAbC1", "0x742d35Cc6634C0532925a3b844Bc9e7595f0bEb"}]

\* the cid of /:cid and /proof/:cid: a non-empty path segment
CidParams == {"QmSample1", "QmSample2", "QmUnknown"}

\* the where clause: a filter is set only for a non-empty parameter, the
\* address in lower case
buildWhere(q) ==
  [category |-> IF q.category \in {Undefined, ""} THEN Undefined ELSE q.category,
   userAddress |-> IF q.userAddress \in {Undefined, ""} THEN Undefined
                   ELSE toLowerCase(q.userAddress)]

\* row r satisfies the where clause
matchesWhere(r, where) ==
  /\ where.category = Undefined \/ r.category = where.category
  /\ where.userAddress = Undefined \/ r.userAddress = where.userAddress

\* the orders in which the rows of S can be listed
Listings(S) ==
  {f \in [1..Cardinality(S) -> S] : \A i, j \in 1..Cardinality(S) : i # j => f[i] # f[j]}

\* an ordering by the row's createdAt column
orderBy_CreatedAtDesc(S) ==
  {f \in Listings(S) : \A i, j \in 1..Cardinality(S) :
                             i < j => f[i].createdAt >= f[j].createdAt}

\* orderBy: { timestamp: "desc" }; rows of equal timestamp come in an order
\* the database picks
orderBy(S) ==
  {f \in Listings(S) : \A i, j \in 1..Cardinality(S) :
                             i < j => f[i].timestamp >= f[j].timestamp}

\* take: n; the first n rows of the ordering, or for a negative n the last
\* -n rows
take(rows, n) ==
  IF n >= 0
    THEN SubSeq(rows, 1, IF n < Len(rows) THEN n ELSE Len(rows))
    ELSE SubSeq(rows, IF 0 - n < Len(rows) THEN Len(rows) + n + 1 ELSE 1, Len(rows))

\* prisma.expense.findMany({ where, orderBy, take }): the possible results
findMany(tbl, where, n) ==
  {take(f, n) : f \in orderBy({r \in tbl : matchesWhere(r, where)})}

\* GET "/": the possible responses; a limit that is not a number makes
\* findMany throw
listRecords(tbl, q) ==
  LET limit == IF q.limit = Undefined THEN "50" ELSE q.limit IN
  IF parseInt(limit).nan
    THEN {[route |-> "list", req |-> q, status |-> 500,
           body |-> [success |-> FALSE, error |-> "Argument take is missing"]]}
    ELSE {[route |-> "list", req |-> q, status |-> 200,
           body |-> [success |-> TRUE, count |-> Len(records), records |-> records]] :
            records \in findMany(tbl, buildWhere(q), parseInt(limit).n)}

\* GET "/:cid": the whole row, or 404
getRecord(tbl, cid) ==
  IF rowsOf(tbl, cid) = {}
    THEN [route |-> "record", req |-> cid, status |-> 404,
          body |-> [success |-> FALSE, error |-> "Record not found"]]
    ELSE [route |-> "record", req |-> cid, status |-> 200,
          body |-> [success |-> TRUE, record |-> CHOOSE r \in rowsOf(tbl, cid) : TRUE]]

\* a proof object that is the row itself
proofOf_WholeRecord(record) == record

\* the proof object: seven columns of the row
proofOf(record) ==
  [cid |-> record.cid,
   submissionHash |-> record.submissionHash,
   txHash |-> record.txHash,
   blockNumber |-> record.blockNumber,
   timestamp |-> record.timestamp,
   userAddress |-> record.userAddress,
   category |-> record.category]

\* GET "/proof/:cid": the proof of the row, or 404
getProof(tbl, cid) ==
  IF rowsOf(tbl, cid) = {}
    THEN [route |-> "proof", req |-> cid, status |-> 404,
          body |-> [success |-> FALSE, error |-> "Proof not found"]]
    ELSE [route |-> "proof", req |-> cid, status |-> 200,
          body |-> [success |-> TRUE,
                    proof |-> proofOf(CHOOSE r \in rowsOf(tbl, cid) : TRUE),
                    encrypted |-> TRUE]]

\* the catch of a route: the database call threw
routeThrows(route, req) ==
  [route |-> route, req |-> req, status |-> 500,
   body |-> [success |-> FALSE, error |-> "database unavailable"]]

ListRecords ==
  /\ \E q \in ListQueries : httpRes' \in listRecords(expenses, q) \cup {routeThrows("list", q)}
  /\ UNCHANGED <<ledgerVars, clock, listenerVars, dbVars, coprocUrl, agg, ioCalls, webVars>>

GetRecord ==
  /\ \E c \in CidParams : httpRes' \in {getRecord(expenses, c), routeThrows("record", c)}
  /\ UNCHANGED <<ledgerVars, clock, listenerVars, dbVars, coprocUrl, agg, ioCalls, webVars>>

GetProof ==
  /\ \E c \in CidParams : httpRes' \in {getProof(expenses, c), routeThrows("proof", c)}
  /\ UNCHANGED <<ledgerVars, clock, listenerVars, dbVars, coprocUrl, agg, ioCalls, webVars>>

\* the Query API over a table filled by the seed script and by events the
\* running listener receives live, once its start-up scan has ended; the
\* response of the first request is kept
NextQuery ==
  \/ ChainAttest /\ txCount < MaxQueryTx /\ running /\ scans = {}
  \/ Tick /\ clock < MaxQueryClock /\ UNCHANGED <<listenerVars, dbVars, apiVars>>
  \/ Start /\ startCount < MaxPipelineStarts
  \/ ScanQueryFilter
  \/ ScanLoop
  \/ LiveDeliver
  \/ HandlerFind
  \/ HandlerWrite
  \/ Seed
  \/ ListRecords /\ httpRes = NoResponse
  \/ GetRecord /\ httpRes = NoResponse
  \/ GetProof /\ httpRes = NoResponse

InitQuery ==
  /\ InitLedger
  /\ InitListener
  /\ InitDb
  /\ InitApi
  /\ envOk = TRUE

SpecQuery == InitQuery /\ [][NextQuery]_vars

\* the listener started once, indexing an attestation sent while it runs
NextIndexer ==
  \/ ChainAttest /\ txCount < MaxQueryTx /\ running
  \/ Tick /\ clock < MaxQueryClock /\ UNCHANGED <<listenerVars, dbVars, apiVars>>
  \/ Start /\ startCount < MaxPipelineStarts
  \/ ScanQueryFilter
  \/ ScanLoop
  \/ LiveDeliver
  \/ HandlerFind
  \/ HandlerWrite

\* the event loop runs every callback that is ready: a queued event is
\* handed over, an awaited call of the scan or the handler returns
SpecIndexerFair ==
  /\ InitQuery
  /\ [][NextIndexer]_vars
  /\ WF_vars(LiveDeliver)
  /\ WF_vars(ScanQueryFilter)
  /\ WF_vars(ScanLoop)
  /\ WF_vars(HandlerFind)
  /\ WF_vars(HandlerWrite)

(***************************************************************************)
(* Aggregation Service: POST /api/coproc/aggregate, CoprocessorService,    *)
(* IPFSService.retrieve.                                                   *)
(***************************************************************************)
\* the operations the route accepts
Ops == {"sum", "max", "min", "avg"}

\* req.body.cids: absent, a string, or an array of cids
CidsBodies ==
  {[kind |-> "undefined", items |-> <<>>],
   [kind |-> "string", items |-> <<"QmA">>],
   [kind |-> "array", items |-> <<>>],
   [kind |-> "array", items |-> <<"QmA">>],
   [kind |-> "array", items |-> <<"QmA", "QmB">>],
   [kind |-> "array", items |-> <<"QmA", "QmMockDemo1">>]}

\* req.body.op: absent, one of the four operations, or something else
OpBodies == {Undefined, "sum", "max", "min", "avg", "median"}

AggregateBodies == [cids : CidsBodies, op : OpBodies]

\* a ciphertext value: undefined, the engine's, or the mock's encoded number
CtUndefined == [defined |-> FALSE, by |-> "", value |-> 0]

CtEngine == [defined |-> TRUE, by |-> "engine", value |-> 0]

\* Buffer.from(JSON.stringify({ value, type: "euint64" })).toString("base64")
CtMock(value) == [defined |-> TRUE, by |-> "mock", value |-> value]

\* response.data of a 2xx answer of the engine: the documented object, an
\* object without the documented properties, or JSON null
EngineBodies ==
  {[kind |-> "object", resultCiphertext |-> CtEngine, coprocVersion |-> "v1.0"],
   [kind |-> "object", resultCiphertext |-> CtUndefined, coprocVersion |-> Undefined],
   [kind |-> "null", resultCiphertext |-> CtUndefined, coprocVersion |-> Undefined]}

\* Math.floor(Math.random() * 1000) + 10: the ends of its range
MockAmounts == {10, 1009}

\* a cids check that lets the empty array through
validCids_AllowEmpty(cids) == cids.kind = "array"

\* !(!cids || !Array.isArray(cids) || cids.length === 0)
validCids(cids) == cids.kind = "array" /\ Len(cids.items) > 0

\* const { op = "sum" } = req.body
opOrDefault(op) == IF op = Undefined THEN "sum" ELSE op

\* ["sum", "max", "min", "avg"].includes(op)
validOp(op) == op \in Ops

\* cid.includes("Mock") || cid === "QmYwAPJzv5CZsnAMockCID12345"
isMockCid(cid) ==
  cid \in {"QmMockDemo1", "QmMockDemo1a", "QmMockDemo2a", "QmYwAPJzv5CZsnAMockCID12345"}

RECURSIVE SumSeq(_)
SumSeq(q) == IF q = <<>> THEN 0 ELSE Head(q) + SumSeq(Tail(q))

MaxOf(q) == CHOOSE x \in {q[i] : i \in 1..Len(q)} : \A i \in 1..Len(q) : q[i] <= x

MinOf(q) == CHOOSE x \in {q[i] : i \in 1..Len(q)} : \A i \in 1..Len(q) : q[i] >= x

\* callMockCoprocessor: the response for the amounts Math.random produced
callMockCoprocessor(mockAmounts, op) ==
  [kind |-> "object",
   resultCiphertext |->
     CtMock(CASE op = "sum" -> SumSeq(mockAmounts)
              [] op = "max" -> MaxOf(mockAmounts)
              [] op = "min" -> MinOf(mockAmounts)
              [] op = "avg" -> SumSeq(mockAmounts) \div Len(mockAmounts)
              [] OTHER -> SumSeq(mockAmounts)),
   coprocVersion |-> "v0.9-mock"]

\* the end of aggregate(): the result built from the coprocessor's
\* response; reading a property of null throws, which the catch rethrows
aggregateReturn(body, response) ==
  IF response.kind = "null"
    THEN [route |-> "aggregate", req |-> body, status |-> 500,
          body |-> [success |-> FALSE,
                    error |-> "Coprocessor aggregation failed: Cannot read properties of null"]]
    ELSE [route |-> "aggregate", req |-> body, status |-> 200,
          body |-> [success |-> TRUE,
                    outputCiphertext |-> response.resultCiphertext,
                    meta |-> [op |-> opOrDefault(body.op),
                              itemsCount |-> Len(body.cids.items),
                              coprocessorVersion |-> response.coprocVersion]]]

\* a Promise.all that waits for every fetch and goes on with those it got
allFetched_Settled(fetch) == \A i \in 1..Len(fetch) : fetch[i] # "pending"

\* Promise.all resolves: every retrieve has resolved
allFetched(fetch) == \A i \in 1..Len(fetch) : fetch[i] = "ok"

\* Promise.all rejects: some retrieve has rejected
someFetchFailed(fetch) == \E i \in 1..Len(fetch) : fetch[i] = "failed"

\* POST /aggregate up to the first await: validation, then aggregate()
\* starts one retrieve per cid; retrieve rejects a mock cid without a fetch
aggregateBegin(body) ==
  /\ agg = NoAgg
  /\ ioCalls.requests < MaxRequests
  /\ UNCHANGED coprocUrl
  /\ IF ~validCids(body.cids)
       THEN /\ httpRes' = [route |-> "aggregate", req |-> body, status |-> 400,
                           body |-> [success |-> FALSE,
                                     error |-> "cids array is required and must not be empty"]]
            /\ ioCalls' = [ioCalls EXCEPT !.requests = @ + 1]
            /\ UNCHANGED agg
       ELSE IF ~validOp(opOrDefault(body.op))
         THEN /\ httpRes' = [route |-> "aggregate", req |-> body, status |-> 400,
                             body |-> [success |-> FALSE,
                                       error |-> "Invalid operation. Must be: sum, max, min, avg"]]
              /\ ioCalls' = [ioCalls EXCEPT !.requests = @ + 1]
              /\ UNCHANGED agg
         ELSE /\ agg' = [pc |-> "fetching", body |-> body,
                         fetch |-> [i \in 1..Len(body.cids.items) |->
                                      IF isMockCid(body.cids.items[i]) THEN "failed"
                                      ELSE "pending"]]
              /\ ioCalls' = [ioCalls EXCEPT
                               !.requests = @ + 1,
                               !.gateway = @ + Cardinality({i \in 1..Len(body.cids.items) :
                                                             ~isMockCid(body.cids.items[i])})]
              /\ UNCHANGED httpRes

\* ipfsService.retrieve: the gateway answers fetch i, or the fetch fails
retrieveSettles(i, ok) ==
  /\ agg.pc = "fetching"
  /\ i \in 1..Len(agg.fetch)
  /\ agg.fetch[i] = "pending"
  /\ agg' = [agg EXCEPT !.fetch[i] = IF ok THEN "ok" ELSE "failed"]
  /\ UNCHANGED <<coprocUrl, ioCalls, httpRes>>

\* aggregate(): Promise.all rejected; the catch rethrows and the route
\* answers 500
aggregateFails ==
  /\ agg.pc = "fetching"
  /\ someFetchFailed(agg.fetch)
  /\ httpRes' = [route |-> "aggregate", req |-> agg.body, status |-> 500,
                 body |-> [success |-> FALSE,
                           error |-> "Coprocessor aggregation failed: IPFS retrieval failed"]]
  /\ agg' = NoAgg
  /\ UNCHANGED <<coprocUrl, ioCalls>>

\* aggregate(): Promise.all resolved; callRealCoprocessor uses the mock when
\* no URL is set, and posts to the engine otherwise
aggregateCalls ==
  /\ agg.pc = "fetching"
  /\ allFetched(agg.fetch)
  /\ UNCHANGED coprocUrl
  /\ IF coprocUrl = ""
       THEN /\ \E mockAmounts \in [1..Len(agg.fetch) -> MockAmounts] :
                 httpRes' = aggregateReturn(agg.body,
                              callMockCoprocessor(mockAmounts, opOrDefault(agg.body.op)))
            /\ ioCalls' = [ioCalls EXCEPT !.mock = @ + 1]
            /\ agg' = NoAgg
       ELSE /\ agg' = [agg EXCEPT !.pc = "engine"]
            /\ ioCalls' = [ioCalls EXCEPT !.engine = @ + 1]
            /\ UNCHANGED httpRes

\* callRealCoprocessor: axios.post resolves with response.data
engineAnswers(data) ==
  /\ agg.pc = "engine"
  /\ httpRes' = aggregateReturn(agg.body, data)
  /\ agg' = NoAgg
  /\ UNCHANGED <<coprocUrl, ioCalls>>

\* callRealCoprocessor: axios.post rejects (network error, timeout, non-2xx);
\* the catch falls back to the mock
engineThrows ==
  /\ agg.pc = "engine"
  /\ \E mockAmounts \in [1..Len(agg.fetch) -> MockAmounts] :
       httpRes' = aggregateReturn(agg.body,
                    callMockCoprocessor(mockAmounts, opOrDefault(agg.body.op)))
  /\ ioCalls' = [ioCalls EXCEPT !.mock = @ + 1]
  /\ agg' = NoAgg
  /\ UNCHANGED coprocUrl

AggregateBegin ==
  /\ \E body \in AggregateBodies : aggregateBegin(body)
  /\ UNCHANGED <<ledgerVars, clock, listenerVars, dbVars, webVars>>

RetrieveSettles ==
  /\ \E i \in 1..2, ok \in BOOLEAN : retrieveSettles(i, ok)
  /\ UNCHANGED <<ledgerVars, clock, listenerVars, dbVars, webVars>>

AggregateFails == aggregateFails /\ UNCHANGED <<ledgerVars, clock, listenerVars, dbVars, webVars>>

AggregateCalls == aggregateCalls /\ UNCHANGED <<ledgerVars, clock, listenerVars, dbVars, webVars>>

EngineAnswers ==
  /\ \E data \in EngineBodies : engineAnswers(data)
  /\ UNCHANGED <<ledgerVars, clock, listenerVars, dbVars, webVars>>

EngineThrows == engineThrows /\ UNCHANGED <<ledgerVars, clock, listenerVars, dbVars, webVars>>

NextCoproc ==
  \/ AggregateBegin
  \/ RetrieveSettles
  \/ AggregateFails
  \/ AggregateCalls
  \/ EngineAnswers
  \/ EngineThrows

\* the backend with COPROCESSOR_URL set or not
InitCoproc ==
  /\ InitLedger
  /\ InitListener
  /\ InitDb
  /\ envOk = TRUE
  /\ coprocUrl \in {"", "https://coproc.example"}
  /\ agg = NoAgg
  /\ ioCalls = NoCalls
  /\ httpRes = NoResponse
  /\ InitWeb

SpecCoproc == InitCoproc /\ [][NextCoproc]_vars

(***************************************************************************)
(* The express app: body parser, rate limiter, routers, error handler.     *)
(***************************************************************************)
\* max of the rate limiter: requests per window and client
RateLimitMax == 100

\* a cid of the format isValidCID accepts, attested and indexed
AttestedCid == "QmYwAPJzv5CZsnA625s3Xf2nemtYgPpHdWEz79ojWnPbdG"

\* a cid of that format that nobody attested
UnknownCid == "QmT5NvUtoM5nWFfrQdVrFtvGfKFmG7AHE8P34isapyhCxX"

\* the requests sent to the app: the path below /api as its segments, what
\* the body is to the parser (none, JSON it can read, JSON it cannot read,
\* more than the 2mb it accepts) and as input the query of a list request
\* or the parsed body of an aggregate request
AppRequests ==
  {[method |-> "GET", path |-> <<"records">>, payload |-> "none", input |-> q] :
     q \in ListQueries}
  \cup {[method |-> "GET", path |-> <<"records">>, payload |-> "malformed",
         input |-> [limit |-> Undefined, category |-> Undefined, userAddress |-> Undefined]]}
  \cup {[method |-> "GET", path |-> p, payload |-> "none", input |-> Undefined] :
          p \in {<<"health">>, <<"records", "QmSample1">>, <<"records", "QmUnknown">>,
                 <<"records", "proof", "QmSample1">>, <<"records", "proof", "QmUnknown">>,
                 <<"proof", "QmSample1">>}}
  \cup {[method |-> "POST", path |-> <<"coproc", "aggregate">>, payload |-> "json",
         input |-> b] : b \in AggregateBodies}
  \cup {[method |-> "POST", path |-> <<"coproc", "aggregate">>, payload |-> p,
         input |-> [cids |-> [kind |-> "undefined", items |-> <<>>], op |-> Undefined]] :
          p \in {"malformed", "tooLarge"}}

\* express.json({ limit: "2mb" }): the error it passes to next() for a body
\* it cannot read or that is too large; status 0 when it passes none
parseError(payload) ==
  CASE payload = "malformed" ->
         [status |-> 400, message |-> "Unexpected token } in JSON at position 1"]
    [] payload = "tooLarge" -> [status |-> 413, message |-> "request entity too large"]
    [] OTHER -> [status |-> 0, message |-> ""]

\* the error handler: status err.status || 500 and a body with one
\* property, error
errorHandler(r, err) ==
  [route |-> "errorHandler", req |-> r.path,
   status |-> IF err.status # 0 THEN err.status ELSE 500,
   body |-> [error |-> IF err.message # "" THEN err.message ELSE "Internal server error"]]

\* the limiter's answer past max: 429 and the message, sent as text
limiterRejects(r) ==
  [route |-> "limiter", req |-> r.path, status |-> 429,
   body |-> [text |-> "Too many requests from this IP, please try again later."]]

\* no route matched and no error was raised: express answers 404 with an
\* HTML page
notFound(r) ==
  [route |-> "none", req |-> r.path, status |-> 404, body |-> [text |-> "Cannot " \o r.method]]

\* GET /api/health
health(r) ==
  [route |-> "health", req |-> r.path, status |-> 200,
   body |-> [status |-> "ok", version |-> "1.0.0"]]

\* the handler a method and path reach: app.get("/api/health"), the
\* routers mounted at /api/records and /api/coproc, or none
routeOf(method, path) ==
  CASE method = "GET" /\ Len(path) = 1 /\ path[1] = "health" -> "health"
    [] method = "GET" /\ Len(path) = 1 /\ path[1] = "records" -> "list"
    [] method = "GET" /\ Len(path) = 2 /\ path[1] = "records" -> "record"
    [] method = "GET" /\ Len(path) = 3 /\ path[1] = "records" /\ path[2] = "proof" -> "proof"
    [] method = "POST" /\ Len(path) = 2 /\ path[1] = "coproc" /\ path[2] = "aggregate" ->
         "aggregate"
    [] OTHER -> "none"

\* the answers of the handler a parsed and admitted request reaches (the
\* aggregate route aside, which answers after its awaits)
routed(r, tbl) ==
  CASE routeOf(r.method, r.path) = "health" -> {health(r)}
    [] routeOf(r.method, r.path) = "list" ->
         listRecords(tbl, r.input) \cup {routeThrows("list", r.input)}
    [] routeOf(r.method, r.path) = "record" ->
         {getRecord(tbl, r.path[2]), routeThrows("record", r.path[2])}
    [] routeOf(r.method, r.path) = "proof" ->
         {getProof(tbl, r.path[3]), routeThrows("proof", r.path[3])}
    [] OTHER -> {notFound(r)}

\* the limiter counts every request that reaches it; a parser error skips it
hitsAfter(r, h) == IF parseError(r.payload).status # 0 THEN h ELSE h + 1

\* the middleware chain for one request: parser, limiter, routers
appAnswers(r, tbl, h) ==
  IF parseError(r.payload).status # 0 THEN {errorHandler(r, parseError(r.payload))}
  ELSE IF hitsAfter(r, h) > RateLimitMax THEN {limiterRejects(r)}
  ELSE routed(r, tbl)

\* one request served by the app; POST /api/coproc/aggregate goes on in
\* the coprocessor service
appRequest(r) ==
  /\ hits' = hitsAfter(r, hits)
  /\ IF /\ routeOf(r.method, r.path) = "aggregate"
        /\ parseError(r.payload).status = 0
        /\ hitsAfter(r, hits) <= RateLimitMax
       THEN aggregateBegin(r.input)
       ELSE /\ httpRes' \in appAnswers(r, expenses, hits)
            /\ ioCalls' = [ioCalls EXCEPT !.requests = @ + 1]
            /\ UNCHANGED <<coprocUrl, agg>>

AppRequest ==
  /\ \E r \in AppRequests : appRequest(r)
  /\ UNCHANGED <<ledgerVars, clock, listenerVars, dbVars, page, clientVars>>

(***************************************************************************)
(* The Verify page of the frontend.                                        *)
(***************************************************************************)
\* what the user can type into the page's cid field
PageCids == {"", "QmSample1", AttestedCid, UnknownCid}

\* isValidCID: Qm followed by 44 or more base58 characters, or b followed
\* by 58 or more base32 characters; of the cids modelled, the two of 46
\* characters
isValidCID(cid) == cid \in {AttestedCid, UnknownCid}

\* the request handleVerify fetches: GET /api/proof/{cid}
proofRequest(cid) ==
  [method |-> "GET", path |-> <<"proof", cid>>, payload |-> "none", input |-> Undefined]

\* the page after the response: response.json() throws on a body that is
\* not JSON and the catch reports a failure
pageAfter(cid, res) ==
  IF "text" \in DOMAIN res.body
    THEN [cid |-> cid, isVerified |-> "false", toast |-> "Failed to verify attestation",
          proofData |-> {}]
  ELSE IF /\ "success" \in DOMAIN res.body
          /\ res.body.success
          /\ "proof" \in DOMAIN res.body
    THEN [cid |-> cid, isVerified |-> "true", toast |-> "Attestation verified!",
          proofData |-> {res.body.proof}]
  ELSE [cid |-> cid, isVerified |-> "false", toast |-> "Attestation not found",
        proofData |-> {}]

\* handleVerify(cid), with the backend's answer to its fetch
handleVerify(cid) ==
  IF cid = ""
    THEN /\ page' = [page EXCEPT !.toast = "Please enter a CID"]
         /\ UNCHANGED <<httpRes, hits>>
  ELSE IF ~isValidCID(cid)
    THEN /\ page' = [page EXCEPT !.toast = "Invalid CID format"]
         /\ UNCHANGED <<httpRes, hits>>
  ELSE /\ hits' = hitsAfter(proofRequest(cid), hits)
       /\ \E res \in appAnswers(proofRequest(cid), expenses, hits) :
            /\ httpRes' = res
            /\ page' = pageAfter(cid, res)

HandleVerify ==
  /\ page = NoPage
  /\ \E cid \in PageCids : handleVerify(cid)
  /\ UNCHANGED <<ledgerVars, clock, listenerVars, dbVars, coprocUrl, agg, ioCalls,
                 clientVars>>

\* an attestation of a cid of the valid format, which the listener indexes
VerifyAttest ==
  /\ txCount < MaxQueryTx
  /\ running
  /\ scans = {}
  /\ attestExpense("0xAbC1", "0xh1", AttestedCid, "0x")
  /\ notifyListeners
  /\ UNCHANGED <<clock, envOk, running, provider, contract, contractsMade, listeners,
                 scans, handlers, console, delivered, startCount, dbVars, apiVars>>

\* the app over a table the seed script fills
NextApp ==
  \/ Seed
  \/ AppRequest /\ ioCalls.requests < MaxAppRequests
  \/ RetrieveSettles
  \/ AggregateFails
  \/ AggregateCalls
  \/ EngineAnswers
  \/ EngineThrows

\* the client's window of the limiter is empty, or one or no request short
\* of max
InitApp ==
  /\ InitLedger
  /\ InitListener
  /\ InitDb
  /\ envOk = TRUE
  /\ coprocUrl \in {"", "https://coproc.example"}
  /\ agg = NoAgg
  /\ ioCalls = NoCalls
  /\ httpRes = NoResponse
  /\ hits \in {0, RateLimitMax - 1, RateLimitMax}
  /\ page = NoPage
  /\ InitClient

SpecApp == InitApp /\ [][NextApp]_vars

\* the Verify page and the app over a table filled by the seed script and
\* by the listener
NextVerify ==
  \/ VerifyAttest
  \/ Start /\ startCount < MaxPipelineStarts
  \/ ScanQueryFilter
  \/ ScanLoop
  \/ LiveDeliver
  \/ HandlerFind
  \/ HandlerWrite
  \/ Seed
  \/ HandleVerify

\* the limiter's window is empty or full
InitVerify ==
  /\ InitLedger
  /\ InitListener
  /\ InitDb
  /\ envOk = TRUE
  /\ coprocUrl = ""
  /\ agg = NoAgg
  /\ ioCalls = NoCalls
  /\ httpRes = NoResponse
  /\ hits \in {0, RateLimitMax}
  /\ page = NoPage
  /\ InitClient

SpecVerify == InitVerify /\ [][NextVerify]_vars

(***************************************************************************)
(* Frontend: the zama-sdk module (getZamaInstance, resetZamaInstance).     *)
(***************************************************************************)
\* the closure getZamaInstance starts, entering initializeZamaSDK: promise
\* and instance carry its number; skip records that sdkInitialized was set
\* already, epoch the resets that had happened
newInit == [pc |-> "initializeZamaSDK", skip |-> sdkInitialized, epoch |-> resets]

\* getZamaInstance(): the instance if there is one, else the cached
\* promise if there is one, else the promise of a closure started now
getZamaInstance ==
  /\ UNCHANGED <<sdkInitialized, sdkInstance, resets, createCalls>>
  /\ IF sdkInstance # 0
       THEN /\ lastGet' = [n |-> lastGet.n + 1, ret |-> "instance", id |-> sdkInstance,
                           fresh |-> FALSE, epoch |-> resets]
            /\ UNCHANGED <<initPromise, inits>>
       ELSE IF initPromise # 0
         THEN /\ lastGet' = [n |-> lastGet.n + 1, ret |-> "promise", id |-> initPromise,
                             fresh |-> FALSE, epoch |-> resets]
              /\ UNCHANGED <<initPromise, inits>>
         ELSE /\ inits' = Append(inits, newInit)
              /\ initPromise' = Len(inits')
              /\ lastGet' = [n |-> lastGet.n + 1, ret |-> "promise", id |-> initPromise',
                             fresh |-> TRUE, epoch |-> resets]

\* resetZamaInstance()
resetZamaInstance ==
  /\ sdkInstance' = 0
  /\ initPromise' = 0
  /\ sdkInitialized' = FALSE
  /\ resets' = resets + 1
  /\ UNCHANGED <<inits, lastGet, createCalls>>

\* closure i: initializeZamaSDK returns, having set sdkInitialized unless it
\* failed (it swallows its errors) or had nothing to do; then the closure
\* throws without a wallet, or awaits waitForSDK()
initializeSettles(i, initOk, wallet) ==
  /\ inits[i].pc = "initializeZamaSDK"
  /\ sdkInitialized' = IF inits[i].skip THEN sdkInitialized ELSE (initOk \/ sdkInitialized)
  /\ inits' = [inits EXCEPT ![i].pc = IF wallet THEN "waitForSDK" ELSE "rejected"]
  /\ UNCHANGED <<sdkInstance, initPromise, resets, lastGet, createCalls>>

\* closure i: waitForSDK returns and sdk.createInstance(config) is called,
\* or waitForSDK throws and the closure rejects
waitForSdkSettles(i, loaded) ==
  /\ inits[i].pc = "waitForSDK"
  /\ inits' = [inits EXCEPT ![i].pc = IF loaded THEN "createInstance" ELSE "rejected"]
  /\ createCalls' = IF loaded THEN createCalls + 1 ELSE createCalls
  /\ UNCHANGED <<sdkInitialized, sdkInstance, initPromise, resets, lastGet>>

\* closure i: createInstance resolves, the closure stores the instance in
\* sdkInstance and fulfils its promise; or createInstance rejects
createInstanceSettles(i, created) ==
  /\ inits[i].pc = "createInstance"
  /\ inits' = [inits EXCEPT ![i].pc = IF created THEN "fulfilled" ELSE "rejected"]
  /\ sdkInstance' = IF created THEN i ELSE sdkInstance
  /\ UNCHANGED <<sdkInitialized, initPromise, resets, lastGet, createCalls>>

GetZamaInstance ==
  /\ lastGet.n < MaxSdkCalls
  /\ getZamaInstance
  /\ UNCHANGED <<ledgerVars, clock, listenerVars, dbVars, coprocUrl, agg, ioCalls, httpRes,
                 hits, page, ipfsVars, submission>>

ResetZamaInstance ==
  /\ resets < MaxResets
  /\ resetZamaInstance
  /\ UNCHANGED <<ledgerVars, clock, listenerVars, dbVars, coprocUrl, agg, ioCalls, httpRes,
                 hits, page, ipfsVars, submission>>

InitializeSettles ==
  /\ \E i \in 1..Len(inits), initOk \in BOOLEAN, wallet \in BOOLEAN :
       initializeSettles(i, initOk, wallet)
  /\ UNCHANGED <<ledgerVars, clock, listenerVars, dbVars, coprocUrl, agg, ioCalls, httpRes,
                 hits, page, ipfsVars, submission>>

WaitForSdkSettles ==
  /\ \E i \in 1..Len(inits), loaded \in BOOLEAN : waitForSdkSettles(i, loaded)
  /\ UNCHANGED <<ledgerVars, clock, listenerVars, dbVars, coprocUrl, agg, ioCalls, httpRes,
                 hits, page, ipfsVars, submission>>

CreateInstanceSettles ==
  /\ \E i \in 1..Len(inits), created \in BOOLEAN : createInstanceSettles(i, created)
  /\ UNCHANGED <<ledgerVars, clock, listenerVars, dbVars, coprocUrl, agg, ioCalls, httpRes,
                 hits, page, ipfsVars, submission>>

NextSdk ==
  \/ GetZamaInstance
  \/ ResetZamaInstance
  \/ InitializeSettles
  \/ WaitForSdkSettles
  \/ CreateInstanceSettles

SpecSdk == InitQuery /\ [][NextSdk]_vars

(***************************************************************************)
(* Backend: IPFSService (upload, getMockCid, retrieve) and its route.      *)
(***************************************************************************)
\* Date.now() as getMockCid prints it
MockStamps == {"1", "2"}

\* the IpfsHash Pinata answers with
PinataHash == "QmPK1s3pNYLi9ERiq3BDxKa4XosgWwFRQUydHUtz4YgpqB"

\* base64 ciphertexts sent to upload()
Ciphertexts == {[base64 |-> "ct1"], [base64 |-> "ct2"]}

\* base64 text of the bytes
toBase64(bytes) == [base64 |-> bytes]

\* Buffer.from(ciphertext, "base64")
fromBase64(ciphertext) == ciphertext.base64

\* a mock cid without the word Mock
getMockCid_Plain(timestamp, random) == "QmDemo" \o timestamp \o random

\* getMockCid(): QmMockDemo, the time and a random base-36 string
getMockCid(timestamp, random) == "QmMockDemo" \o timestamp \o random

\* how the pinning call ends: with a hash, with an error, with an answer
\* that has no IpfsHash
PinOutcomes == {"ok", "fails", "noHash"}

\* upload() falls back to a mock cid: keys missing, or uploadToPinata threw
usesFallback(pin) == ~pinataKeys \/ pin # "ok"

\* upload(ciphertext): never throws; the Pinata hash, or a mock cid
upload(ciphertext, pin, timestamp) ==
  LET cid == IF usesFallback(pin) THEN getMockCid(timestamp, "a") ELSE PinataHash IN
  /\ pinned' = IF usesFallback(pin) THEN pinned
               ELSE pinned \cup {[cid |-> cid, content |-> fromBase64(ciphertext)]}
  /\ issued' = issued \cup {[cid |-> cid, fallback |-> usesFallback(pin)]}
  /\ ipfsRes' = [n |-> ipfsRes.n + 1, op |-> "upload", cid |-> cid, data |-> {ciphertext},
                 threw |-> FALSE, error |-> "", fallback |-> usesFallback(pin)]
  /\ UNCHANGED pinataKeys

\* what the gateway holds for a cid
contentOf(cid) == {p.content : p \in {q \in pinned : q.cid = cid}}

\* retrieve(cid): a mock cid is refused before any request; else the
\* gateway is asked and its answer returned as base64, or its failure
\* rethrown
retrieve(cid, gatewayOk) ==
  /\ UNCHANGED <<pinataKeys, pinned, issued>>
  /\ IF isMockCid(cid)
       THEN /\ ipfsRes' = [n |-> ipfsRes.n + 1, op |-> "retrieve", cid |-> cid, data |-> {},
                           threw |-> TRUE, error |-> "Mock CID detected - skipping",
                           fallback |-> FALSE]
            /\ UNCHANGED ioCalls
       ELSE /\ ioCalls' = [ioCalls EXCEPT !.gateway = @ + 1]
            /\ IF gatewayOk /\ contentOf(cid) # {}
                 THEN ipfsRes' = [n |-> ipfsRes.n + 1, op |-> "retrieve", cid |-> cid,
                                  data |-> {toBase64(c) : c \in contentOf(cid)},
                                  threw |-> FALSE, error |-> "", fallback |-> FALSE]
                 ELSE ipfsRes' = [n |-> ipfsRes.n + 1, op |-> "retrieve", cid |-> cid,
                                  data |-> {}, threw |-> TRUE,
                                  error |-> "IPFS retrieval failed", fallback |-> FALSE]

\* the cids retrieve() is called with: those upload() returned, and two
\* more
RetrieveCids == {i.cid : i \in issued} \cup {PinataHash, "QmYwAPJzv5CZsnAMockCID12345"}

IpfsUpload ==
  /\ ipfsRes.n < MaxIpfsCalls
  /\ \E x \in Ciphertexts, pin \in PinOutcomes, t \in MockStamps : upload(x, pin, t)
  /\ UNCHANGED <<ledgerVars, clock, listenerVars, dbVars, coprocUrl, agg, ioCalls, httpRes,
                 hits, page, sdkVars, submission>>

IpfsRetrieve ==
  /\ ipfsRes.n < MaxIpfsCalls
  /\ \E cid \in RetrieveCids, gatewayOk \in BOOLEAN : retrieve(cid, gatewayOk)
  /\ UNCHANGED <<ledgerVars, clock, listenerVars, dbVars, coprocUrl, agg, httpRes,
                 hits, page, sdkVars, submission>>

NextIpfs ==
  \/ IpfsUpload
  \/ IpfsRetrieve

\* the service with the pinning keys configured or not
InitIpfs ==
  /\ InitLedger
  /\ InitListener
  /\ InitDb
  /\ envOk = TRUE
  /\ coprocUrl = ""
  /\ agg = NoAgg
  /\ ioCalls = NoCalls
  /\ httpRes = NoResponse
  /\ hits = 0
  /\ page = NoPage
  /\ pinataKeys \in BOOLEAN
  /\ pinned = {}
  /\ issued = {}
  /\ ipfsRes = NoIpfsRes
  /\ InitSdk
  /\ submission = NoSubmission

SpecIpfs == InitIpfs /\ [][NextIpfs]_vars

(***************************************************************************)
(* Frontend: the submit flow of the Add Expense form.                      *)
(***************************************************************************)
\* parseFloat(formData.amount): the number, or NaN
parseFloat(str) ==
  CASE str = "0" -> [nan |-> FALSE, n |-> 0]
    [] str = "25" -> [nan |-> FALSE, n |-> 25]
    [] OTHER -> [nan |-> TRUE, n |-> 0]

\* the form when it is submitted: is a wallet connected, and the amount
\* typed
Forms == [address : BOOLEAN, amount : {"", "0", "25"}]

\* the payload handleSubmit builds
payloadOf(form, now) ==
  [amount |-> parseFloat(form.amount).n, currency |-> "USD", category |-> "food",
   note |-> "lunch", timestamp |-> now]

\* new TextEncoder().encode(JSON.stringify(obj)): the bytes of the JSON
\* text, from which obj is read back without any key
jsonBytes(obj) == [json |-> obj]

\* the SDK's ciphertext of a value: the value is not readable from it
encrypt64(value) == [euint64 |-> "ciphertext", of |-> value]

\* the blob of a successful encryption: the encrypted amount and, in the
\* clear, the metadata
fheBlob(payload) ==
  jsonBytes([encryptedAmount |-> encrypt64(payload.amount),
             metadata |-> [category |-> payload.category, note |-> payload.note,
                           currency |-> payload.currency,
                           timestamp |-> payload.timestamp]])

\* the blob of the fallback ("mock encryption"): the payload as JSON
fallbackBlob(payload) == jsonBytes(payload)

\* how encryptExpenseWithFHE goes on once it has the instance: it encrypts,
\* or throws for a missing contract address, a missing encryption method or
\* a failing encryption call
EncryptOutcomes == {"encrypted", "noContractAddress", "noEncryptMethod", "encryptThrows"}

\* handleSubmit up to the first await: the checks of the form, then
\* encryptExpenseWithFHE calls getZamaInstance()
handleSubmit(form) ==
  /\ submission.pc = "idle"
  /\ IF ~form.address \/ form.amount = "" \/ parseFloat(form.amount).n <= 0
       THEN UNCHANGED <<sdkVars, submission>>
       ELSE /\ getZamaInstance
            /\ submission' = [pc |-> "encrypting", payload |-> payloadOf(form, clock),
                              wait |-> [ret |-> lastGet'.ret, id |-> lastGet'.id]]

\* the promise of getZamaInstance() has settled
instanceSettled(wait) ==
  wait.ret = "instance" \/ inits[wait.id].pc \in {"fulfilled", "rejected"}

\* encryptExpenseWithFHE returns: the blob of the encryption, or of the
\* fallback when getZamaInstance() rejected or anything threw; handleSubmit
\* then calls uploadToIPFS with the blob
encryptSettles(outcome) ==
  /\ submission.pc = "encrypting"
  /\ instanceSettled(submission.wait)
  /\ LET rejected == /\ submission.wait.ret = "promise"
                     /\ inits[submission.wait.id].pc = "rejected"
     IN submission' = [pc |-> "uploading", payload |-> submission.payload,
                       blob |-> IF rejected \/ outcome # "encrypted"
                                  THEN fallbackBlob(submission.payload)
                                  ELSE fheBlob(submission.payload)]

\* uploadToIPFS returns: the backend received the blob as base64, called
\* upload() and answered with its cid; or the request failed and the
\* frontend made up a mock cid
uploadSettles(reached, pin, timestamp) ==
  /\ submission.pc = "uploading"
  /\ IF reached
       THEN /\ upload(toBase64(submission.blob), pin, timestamp)
            /\ submission' = [pc |-> "attesting", payload |-> submission.payload,
                              blob |-> submission.blob, cid |-> ipfsRes'.cid]
       ELSE /\ submission' = [pc |-> "attesting", payload |-> submission.payload,
                              blob |-> submission.blob,
                              cid |-> getMockCid(timestamp, "a")]
            /\ UNCHANGED ipfsVars

HandleSubmit ==
  /\ \E form \in Forms : handleSubmit(form)
  /\ UNCHANGED <<ledgerVars, clock, listenerVars, dbVars, coprocUrl, agg, ioCalls, httpRes,
                 hits, page, ipfsVars>>

EncryptSettles ==
  /\ \E outcome \in EncryptOutcomes : encryptSettles(outcome)
  /\ UNCHANGED <<ledgerVars, clock, listenerVars, dbVars, coprocUrl, agg, ioCalls, httpRes,
                 hits, page, ipfsVars, sdkVars>>

UploadSettles ==
  /\ \E reached \in BOOLEAN, pin \in PinOutcomes, t \in MockStamps :
       uploadSettles(reached, pin, t)
  /\ UNCHANGED <<ledgerVars, clock, listenerVars, dbVars, coprocUrl, agg, ioCalls, httpRes,
                 hits, page, sdkVars>>

\* one submit of the form, with the SDK initializing on demand
NextSubmit ==
  \/ HandleSubmit
  \/ InitializeSettles
  \/ WaitForSdkSettles
  \/ CreateInstanceSettles
  \/ EncryptSettles
  \/ UploadSettles

SpecSubmit == InitIpfs /\ [][NextSubmit]_vars

(***************************************************************************)
(* Properties of the indexer and its table (checked under Spec).           *)
(***************************************************************************)
\* every cid a row can have
AllCids == Cids \cup {sampleExpenses[i].cid : i \in 1..Len(sampleExpenses)}

\* cids of the rows of the table
RowCids == {r.cid : r \in expenses}

\* cids for which some handleExpenseAttested logged "Indexed expense"
IndexedCids == {l[3][1] : l \in {x \in console : x[2] = "Indexed expense"}}

\* cids the seed script has upserted
SeededCids == {sampleExpenses[i].cid : i \in 1..seedPc}

\* the step ends the invocation h of handleExpenseAttested
Completes(h) == handlers' = handlers (-) SetToBag({h})

\* the step begins an invocation of handleExpenseAttested
HandlerBegins == BagCardinality(handlers') > BagCardinality(handlers)

\* tbl holds the row an earlier handleExpenseAttested created from h's event
IsReapply(tbl, h) ==
  \E r \in tbl : /\ r.cid = h.cid
                 /\ r.submissionHash = h.submissionHash
                 /\ r.userAddress = toLowerCase(h.user)
                 /\ r.timestamp = toDate(h.timestamp)
                 /\ r.txHash = "pending"

\* rows with the updatedAt column masked
WithoutUpdatedAt(rows) == {[r EXCEPT !.updatedAt = 0] : r \in rows}

\* the step keeps every row of cid, with status confirmed and with the first
\* writer's userAddress, submissionHash, txHash, blockNumber, timestamp,
\* category and note
FirstWriterKept(cid) ==
  \A r \in rowsOf(expenses, cid) :
    \E r2 \in expenses' :
      /\ r2.id = r.id /\ r2.cid = r.cid
      /\ r2.status = "confirmed"
      /\ r2.userAddress = r.userAddress
      /\ r2.submissionHash = r.submissionHash
      /\ r2.txHash = r.txHash
      /\ r2.blockNumber = r.blockNumber
      /\ r2.timestamp = r.timestamp
      /\ r2.category = r.category
      /\ r2.note = r.note

\* C2 as stated: once every delivered event has been handled (the seed script
\* not run), the table holds exactly one row for each delivered cid and no
\* row for any other cid.
C2_ExactlyOnePerDelivered ==
  (handlers = EmptyBag /\ seedPc = 0) =>
    /\ RowCids = delivered
    /\ \A c \in delivered : Cardinality(rowsOf(expenses, c)) = 1

\* C2 amended: the table never holds two rows for one cid; a row exists for
\* exactly the cids for which some delivery's upsert completed (a cid whose
\* every delivery was dropped on a persistence error has none) and for the
\* cids the seed script upserted; every indexed cid was delivered.
C2_OnePerIndexedCid ==
  /\ \A c \in AllCids : Cardinality(rowsOf(expenses, c)) <= 1
  /\ RowCids = IndexedCids \cup SeededCids
  /\ IndexedCids \subseteq delivered

\* C2 witness: two distinct cids are indexed, every handler has returned, and
\* a re-delivered event lost the race for the INSERT to the unique index
C2_Witness ==
  /\ handlers = EmptyBag
  /\ seedPc = 0
  /\ Cardinality(expenses) = 2
  /\ RowCids = delivered
  /\ <<"error", "Error handling event", "Unique constraint failed">> \in console

\* C3 as stated: a handleExpenseAttested that finds the row an earlier
\* application of the same event stored leaves that row the same in every
\* stored column.
C3_SameRowEveryColumn ==
  [][ \A h \in BagToSet(handlers) :
        (Completes(h) /\ IsReapply(expenses, h)) =>
          rowsOf(expenses', h.cid) = rowsOf(expenses, h.cid) ]_vars

\* C3 amended: once handleExpenseAttested(e) has stored e's row, a further
\* handleExpenseAttested(e) leaves every column of that row except updatedAt
\* as it was.
C3_SameRowButUpdatedAt ==
  [][ \A h \in BagToSet(handlers) :
        (Completes(h) /\ IsReapply(expenses, h)) =>
          WithoutUpdatedAt(rowsOf(expenses', h.cid)) =
            WithoutUpdatedAt(rowsOf(expenses, h.cid)) ]_vars

\* C3 witness: the only event of a cid has been applied again after the clock
\* moved on: its row was written a second time
C3_Witness ==
  /\ seedPc = 0
  /\ \E r \in expenses :
       /\ r.txHash = "pending"
       /\ r.updatedAt > r.createdAt
       /\ Cardinality({i \in 1..Len(AttestEvents) : AttestEvents[i].cid = r.cid}) = 1

\* C4: under every backend step (live or backfill handleExpenseAttested, the
\* seed script, the read routes) a row whose status is confirmed keeps it.
C4_StatusMonotonic ==
  [][ \A r \in expenses :
        r.status = "confirmed" =>
          \E r2 \in expenses' : r2.id = r.id /\ r2.status = "confirmed" ]_vars

\* C4 witness: a confirmed row the seed script created has since been updated
\* by handleExpenseAttested
C4_Witness ==
  \E r \in expenses :
    /\ r.txHash = "0xabc..."
    /\ r.status = "confirmed"
    /\ r.updatedAt > r.createdAt
    /\ r.cid \in IndexedCids

\* C5 as stated: a handleExpenseAttested that returns with a row present for
\* its cid has left the row confirmed with the first writer's columns; one
\* that returns with no row present has inserted a confirmed row.
C5_UpdateKeepsInsertAlways ==
  [][ \A h \in BagToSet(handlers) :
        Completes(h) =>
          IF rowsOf(expenses, h.cid) # {}
            THEN FirstWriterKept(h.cid)
            ELSE \E r \in expenses' : r.cid = h.cid /\ r.status = "confirmed" ]_vars

\* C5 amended: with a row present the row is left confirmed with the first
\* writer's columns, whatever submitter, fingerprint or timestamp the event
\* carries; with no row present a confirmed row built from the event is
\* inserted, unless the upsert throws: then the table is unchanged and the
\* error is logged.
C5_UpdateKeepsInsertUnlessThrown ==
  [][ \A h \in BagToSet(handlers) :
        Completes(h) =>
          IF rowsOf(expenses, h.cid) # {}
            THEN /\ FirstWriterKept(h.cid)
                 /\ Cardinality(expenses') = Cardinality(expenses)
            ELSE \/ /\ expenses' = expenses
                    /\ \E l \in console' : l[2] = "Error handling event"
                 \/ \E r \in expenses' :
                      /\ expenses' = expenses \cup {r}
                      /\ r.cid = h.cid
                      /\ r.status = "confirmed"
                      /\ r.userAddress = toLowerCase(h.user)
                      /\ r.submissionHash = h.submissionHash ]_vars

\* C5 witness: the row of a cid still carries the first event's submitter and
\* fingerprint after a later event of another account, with another
\* fingerprint and timestamp, was indexed under the same cid
C5_Witness ==
  /\ Len(AttestEvents) = 2
  /\ AttestEvents[1].cid = AttestEvents[2].cid
  /\ AttestEvents[1].user # AttestEvents[2].user
  /\ AttestEvents[1].timestamp # AttestEvents[2].timestamp
  /\ <<"log", "Indexed expense", <<AttestEvents[2].cid, AttestEvents[2].user>>>> \in console
  /\ \E r \in expenses :
       /\ r.cid = AttestEvents[1].cid
       /\ r.userAddress = toLowerCase(AttestEvents[1].user)
       /\ r.submissionHash = AttestEvents[1].submissionHash
       /\ r.timestamp = toDate(AttestEvents[1].timestamp)
       /\ r.updatedAt > r.createdAt

\* the step ends handler h on a caught error: its event is not logged as
\* indexed
DropsEvent(h) ==
  /\ Completes(h)
  /\ <<"log", "Indexed expense", <<h.cid, h.user>>>> \notin console'

\* the scan that awaits handler h, if any
AwaitingScans(h) == {sc \in scans : sc.id = h.src /\ sc.pc = "handling"}

\* C14: a handleExpenseAttested that ends on a persistence failure writes
\* nothing and is not run again by the listener (the event is dropped, the
\* error only logged); state.running, the provider and contract handles, the
\* registered listener and the events still queued for it stay as they
\* were; a backfill scan awaiting the handler goes on with every event it
\* has left, and no catch of start() or processRecentEvents is entered.
C14_FailureIsSwallowed ==
  [][ \A h \in BagToSet(handlers) :
        DropsEvent(h) =>
          /\ expenses' = expenses
          /\ \E l \in console' : l[1] = "error" /\ l[2] = "Error handling event"
          /\ UNCHANGED <<running, provider, contract, contractsMade, listeners,
                         liveQueue, delivered>>
          /\ \A sc \in AwaitingScans(h) :
                [sc EXCEPT !.pc = "loop"] \in scans'
          /\ Cardinality(scans') = Cardinality(scans)
          /\ {l \in console' \ console : l[2] # "Error handling event"} = {} ]_vars

\* C14 witness: the first event of a backfill scan was dropped on a failed
\* upsert; the listener is running with its listener registered and the
\* scan is about to handle the event it has left
C14_Witness ==
  /\ running
  /\ listeners = {contract}
  /\ expenses = {}
  /\ handlers = EmptyBag
  /\ liveQueue = <<>>
  /\ delivered # {}
  /\ <<"error", "Error handling event", "database unavailable">> \in console
  /\ \E sc \in scans : sc.pc = "loop" /\ sc.events # <<>>

\* handler h found no row for its cid, and a row for it is there now: h
\* lost the race for the INSERT
LostRace(h) == h.pc = "write" /\ ~h.found /\ rowsOf(expenses, h.cid) # {}

\* C24: when a handleExpenseAttested that found no row for its cid comes to
\* its INSERT after a concurrent invocation for the same cid has inserted
\* the row, the table is left as it is, with exactly one row for the cid,
\* confirmed; the refused INSERT is logged as an error and nothing else
\* happens: the listener keeps running with its listener registered and
\* its queued events, and a scan awaiting the handler goes on.
C24_RaceLoserSwallowed ==
  [][ \A h \in BagToSet(handlers) :
        (Completes(h) /\ LostRace(h)) =>
          /\ Cardinality(rowsOf(expenses', h.cid)) = 1
          /\ \A r \in rowsOf(expenses', h.cid) : r.status = "confirmed"
          /\ expenses' = expenses
          /\ \E l \in console' : l[1] = "error" /\ l[2] = "Error handling event"
          /\ {l \in console' \ console : l[2] # "Error handling event"} = {}
          /\ UNCHANGED <<running, provider, contract, listeners, liveQueue>>
          /\ \A sc \in AwaitingScans(h) : [sc EXCEPT !.pc = "loop"] \in scans' ]_vars

\* C24 witness: the one cid delivered was delivered twice, both handlers
\* have returned, one of them on the refused INSERT; the table holds one
\* confirmed row and the listener is still running and subscribed
C24_Witness ==
  /\ handlers = EmptyBag
  /\ seedPc = 0
  /\ delivered = {"QmSample1"}
  /\ Cardinality(expenses) = 1
  /\ \A r \in expenses : r.cid = "QmSample1" /\ r.status = "confirmed"
  /\ <<"error", "Error handling event", "Unique constraint failed">> \in console
  /\ running
  /\ listeners = {contract}

\* C26: a row handleExpenseAttested inserts starts with txHash "pending"
\* and blockNumber null, and these placeholders are eventually replaced by
\* the transaction hash and block number of the attestation.
C26_PlaceholdersReplaced ==
  /\ [][ \A r \in expenses' \ expenses :
           r.txHash = "pending" /\ r.blockNumber = Null ]_vars
  /\ \A c \in Cids :
       (\E r \in expenses : r.cid = c /\ r.txHash = "pending")
         ~> (\E r \in expenses : r.cid = c /\ r.txHash # "pending" /\ r.blockNumber # Null)

(***************************************************************************)
(* Properties of the Query API (checked under SpecQuery).                  *)
(***************************************************************************)
\* the step sends the response of the given route
Responds(route) == httpRes' # httpRes /\ httpRes'.route = route

\* the columns a proof object may carry
ProofFields ==
  {"cid", "submissionHash", "txHash", "blockNumber", "timestamp", "userAddress", "category"}

\* names under which an amount, the note or a decrypted payload would travel
SensitiveFields == {"amount", "note", "plaintext", "decrypted", "record", "records"}

\* C19: whatever row the table holds for the cid, the response of
\* GET /proof/:cid carries success, encrypted and a proof object of exactly
\* the seven columns cid, submissionHash, txHash, blockNumber, timestamp,
\* userAddress and category, each as the row has it, and no amount, note or
\* decrypted payload anywhere; when the lookup finds no row for the cid the
\* response is a 404 carrying only success and error.
C19_ProofIsMetadataOnly ==
  [][ Responds("proof") =>
        LET res == httpRes' IN
        /\ (DOMAIN res.body) \cap SensitiveFields = {}
        /\ res.status = 200 =>
             /\ DOMAIN res.body = {"success", "proof", "encrypted"}
             /\ res.body.encrypted
             /\ DOMAIN res.body.proof = ProofFields
             /\ \E r \in rowsOf(expenses, res.req) :
                  \A f \in ProofFields : res.body.proof[f] = r[f]
        /\ (rowsOf(expenses, res.req) = {} /\ res # routeThrows("proof", res.req)) =>
             /\ res.status = 404
             /\ DOMAIN res.body = {"success", "error"}
        /\ rowsOf(expenses, res.req) # {} => res.status # 404 ]_vars

\* C19 witness: the proof of a row that has a note and a category, which
\* the listener has confirmed again since, has been served
C19_Witness ==
  /\ httpRes.status = 200
  /\ httpRes.route = "proof"
  /\ \E r \in expenses :
       /\ r.cid = httpRes.req
       /\ r.note # Null
       /\ r.updatedAt > r.createdAt
       /\ httpRes.body.proof.category = r.category

\* the limit in force for a list request: the requested one, 50 when none
\* is given
limitInForce(q) == IF q.limit = Undefined THEN 50 ELSE parseInt(q.limit).n

\* C21: GET / never returns more rows than the limit in force, the
\* requested limit when one is given and 50 when none is given, whatever
\* value the client sends as limit (zero, negative or not a number).
C21_CountWithinLimit ==
  (httpRes.status = 200 /\ httpRes.route = "list") =>
    /\ httpRes.body.count <= limitInForce(httpRes.req)
    /\ Len(httpRes.body.records) = httpRes.body.count

\* the rows of a served list satisfy the filters of its request
ListIsFiltered(res) ==
  \A i \in 1..Len(res.body.records) :
    LET r == res.body.records[i] IN
    /\ res.req.category # Undefined => r.category = res.req.category
    /\ res.req.userAddress # Undefined =>
         toLowerCase(r.userAddress) = toLowerCase(res.req.userAddress)

\* C20 as stated: the rows GET / returns satisfy the category filter and the
\* submitter filter (when given) and come ordered by createdAt descending.
C20_FilteredCreatedAtDesc ==
  (httpRes.status = 200 /\ httpRes.route = "list") =>
    /\ ListIsFiltered(httpRes)
    /\ \A i, j \in 1..Len(httpRes.body.records) :
         i < j => httpRes.body.records[i].createdAt >= httpRes.body.records[j].createdAt

\* C20 amended: the rows GET / returns satisfy the category filter and the
\* submitter filter (when given; addresses compared in lower case) and come
\* ordered by the timestamp column descending, the time the ledger gave the
\* attestation, not by createdAt.
C20_FilteredTimestampDesc ==
  (httpRes.status = 200 /\ httpRes.route = "list") =>
    /\ ListIsFiltered(httpRes)
    /\ \A i, j \in 1..Len(httpRes.body.records) :
         i < j => httpRes.body.records[i].timestamp >= httpRes.body.records[j].timestamp

\* C20 witness: a served list whose first row has the later timestamp and
\* the earlier createdAt
C20_Witness ==
  /\ httpRes.status = 200
  /\ httpRes.route = "list"
  /\ httpRes.body.count = 2
  /\ httpRes.body.records[1].timestamp > httpRes.body.records[2].timestamp
  /\ httpRes.body.records[1].createdAt < httpRes.body.records[2].createdAt

(***************************************************************************)
(* Properties of the Aggregation Service (checked under SpecCoproc).       *)
(***************************************************************************)
\* the step is the arrival of a POST /aggregate request
RequestArrives == ioCalls'.requests # ioCalls.requests

\* the body of the request that arrives in the step
ArrivingBody == IF agg' = NoAgg THEN httpRes'.req ELSE agg'.body

\* the step ends the request in progress with a response
AggregateResponds == agg # NoAgg /\ agg' = NoAgg

\* the step fetches nothing from the gateway and calls no engine
NoOutboundCall ==
  /\ ioCalls'.gateway = ioCalls.gateway
  /\ ioCalls'.engine = ioCalls.engine
  /\ ioCalls'.mock = ioCalls.mock

\* C15: a request whose cids is missing, not an array or empty (whatever its
\* op), or whose op is given and is none of sum, max, min, avg (whatever its
\* cids), is answered 400 with success false in the step it arrives: no
\* ciphertext is fetched, neither the engine nor the mock is called and
\* aggregate() is not entered.
C15_InvalidInputRejected ==
  [][ (/\ RequestArrives
       /\ \/ ArrivingBody.cids.kind # "array"
          \/ ArrivingBody.cids.items = <<>>
          \/ ArrivingBody.op \notin Ops \cup {Undefined}) =>
        /\ httpRes'.status = 400
        /\ httpRes'.route = "aggregate"
        /\ ~httpRes'.body.success
        /\ DOMAIN httpRes'.body = {"success", "error"}
        /\ agg' = NoAgg
        /\ NoOutboundCall ]_vars

\* C15 witness: two requests were rejected, the last one for its op with a
\* list of two cids, and no outbound call has been made
C15_Witness ==
  /\ ioCalls = [requests |-> 2, gateway |-> 0, engine |-> 0, mock |-> 0]
  /\ httpRes.status = 400
  /\ httpRes.req.cids.items = <<"QmA", "QmB">>
  /\ httpRes.req.op = "median"

\* C16: from the moment one retrieve of a request has failed, neither the
\* engine nor the mock is called for it, and the response that ends it is a
\* 500 with success false and no outputCiphertext.
C16_FailedFetchFailsAll ==
  [][ (agg # NoAgg /\ \E i \in 1..Len(agg.fetch) : agg.fetch[i] = "failed") =>
        /\ ioCalls'.engine = ioCalls.engine
        /\ ioCalls'.mock = ioCalls.mock
        /\ agg' # NoAgg => agg'.pc = "fetching"
        /\ agg' = NoAgg =>
             /\ httpRes'.status = 500
             /\ ~httpRes'.body.success
             /\ "outputCiphertext" \notin DOMAIN httpRes'.body ]_vars

\* C16 witness: a request for two cids, both fetched from the gateway, one
\* of them without success, has been answered 500 with no engine or mock call
C16_Witness ==
  /\ agg = NoAgg
  /\ ioCalls = [requests |-> 1, gateway |-> 2, engine |-> 0, mock |-> 0]
  /\ httpRes.status = 500
  /\ httpRes.req.cids.items = <<"QmA", "QmB">>
  /\ "outputCiphertext" \notin DOMAIN httpRes.body

\* C17: a request whose every retrieve succeeded is answered 200 with a
\* result, whatever the engine does; when no engine URL is set or the call
\* to the engine fails, the result is the mock's, with coprocessorVersion
\* "v0.9-mock".
C17_EngineNeverFailsAggregate ==
  [][ (AggregateResponds /\ \A i \in 1..Len(agg.fetch) : agg.fetch[i] = "ok") =>
        /\ httpRes'.status = 200
        /\ (coprocUrl = "" \/ ioCalls'.mock # ioCalls.mock) =>
             /\ httpRes'.body.outputCiphertext.by = "mock"
             /\ httpRes'.body.meta.coprocessorVersion = "v0.9-mock" ]_vars

\* C18: a request answered 200 carries an outputCiphertext, meta.itemsCount
\* equal to the number of cids requested and meta.op equal to the op
\* requested, be the result the engine's or the mock's.
C18_ResultShape ==
  [][ (AggregateResponds /\ httpRes'.status = 200) =>
        /\ httpRes'.body.outputCiphertext.defined
        /\ httpRes'.body.meta.itemsCount = Len(agg.body.cids.items)
        /\ agg.body.op \in Ops => httpRes'.body.meta.op = agg.body.op ]_vars

(***************************************************************************)
(* Properties of the express app (checked under SpecApp).                  *)
(***************************************************************************)
\* C22: every response with status 400 or above has the body
\* {success: false, error: <message>} and a 4xx or 5xx status, whether a
\* route handler, the body parser, the rate limiter or the error handler
\* produced it.
C22_UniformErrorEnvelope ==
  httpRes.status >= 400 =>
    /\ httpRes.status < 600
    /\ DOMAIN httpRes.body = {"success", "error"}
    /\ httpRes.body.success = FALSE

(***************************************************************************)
(* Properties of the Verify page (checked under SpecVerify).               *)
(***************************************************************************)
\* C27: when the page verifies a cid (of the format it accepts) that has a
\* row in the table, its request GET /api/proof/{cid} is answered by the
\* proof handler with success and the proof, and the page reports the
\* attestation as verified; for a cid without a row the page reports it as
\* not found.
C27_VerifyPageFindsProof ==
  [][ (page' # page /\ isValidCID(page'.cid)) =>
        IF rowsOf(expenses, page'.cid) # {}
          THEN /\ httpRes'.route = "proof"
               /\ httpRes'.status = 200 => page'.isVerified = "true"
               /\ hits < RateLimitMax => page'.isVerified = "true"
          ELSE hits < RateLimitMax => page'.toast = "Attestation not found" ]_vars

(***************************************************************************)
(* Properties of the zama-sdk module (checked under SpecSdk).              *)
(***************************************************************************)
\* the promise cached in initPromise has been rejected
CachedRejected == initPromise # 0 /\ inits[initPromise].pc = "rejected"

\* the step is a call of getZamaInstance
GetReturns == lastGet' # lastGet

\* C28: once the cached initialization has failed, the rejected promise
\* stays cached until resetZamaInstance() is called, and every call of
\* getZamaInstance() returns that promise, starting no closure and no
\* createInstance call.
C28_FailedInitSticky ==
  [][ CachedRejected =>
        /\ resets' = resets => initPromise' = initPromise
        /\ GetReturns =>
             /\ lastGet'.ret = "promise"
             /\ lastGet'.id = initPromise
             /\ inits' = inits
             /\ createCalls' = createCalls ]_vars

\* C29: after a resetZamaInstance(), the first getZamaInstance() starts a
\* fresh initialization, and no getZamaInstance() returns an instance, or
\* the promise of one, whose creation began before the last reset.
C29_FreshAfterReset ==
  [][ (GetReturns /\ resets > 0) =>
        /\ inits'[lastGet'.id].epoch = resets
        /\ lastGet.epoch < resets => lastGet'.fresh ]_vars

(***************************************************************************)
(* Properties of the IPFS service (checked under SpecIpfs).                *)
(***************************************************************************)
\* the step is a call of the given operation of the service
IpfsReturns(op) == ipfsRes'.n # ipfsRes.n /\ ipfsRes'.op = op

\* C30: upload never throws and, when the pinning keys are missing or the
\* pinning call fails, returns a mock cid (one containing "Mock") and pins
\* nothing; retrieve refuses every cid containing "Mock" without a request
\* to the gateway; so retrieve fails for every cid upload returned as a
\* fallback.
C30_FallbackNoRoundTrip ==
  [][ /\ IpfsReturns("upload") =>
           /\ ~ipfsRes'.threw
           /\ ~pinataKeys => ipfsRes'.fallback
           /\ ipfsRes'.fallback => (isMockCid(ipfsRes'.cid) /\ pinned' = pinned)
           /\ ~ipfsRes'.fallback => pinned' # {}
      /\ IpfsReturns("retrieve") =>
           /\ isMockCid(ipfsRes'.cid) =>
                (ipfsRes'.threw /\ ipfsRes'.data = {} /\ ioCalls' = ioCalls)
           /\ [cid |-> ipfsRes'.cid, fallback |-> TRUE] \in issued =>
                (ipfsRes'.threw /\ ipfsRes'.data = {}) ]_vars

\* C30 witness: with the keys configured the pinning call failed, and the
\* retrieve of the mock cid upload returned was refused without a request
\* to the gateway
C30_Witness ==
  /\ pinataKeys
  /\ pinned = {}
  /\ ipfsRes.op = "retrieve"
  /\ ipfsRes.threw
  /\ [cid |-> ipfsRes.cid, fallback |-> TRUE] \in issued
  /\ ioCalls.gateway = 0

(***************************************************************************)
(* Properties of the submit flow (checked under SpecSubmit).               *)
(***************************************************************************)
\* the blob holds the amount as a ciphertext and nowhere in the clear
IsEncryptedBlob(blob) ==
  /\ "encryptedAmount" \in DOMAIN blob.json
  /\ "amount" \notin DOMAIN blob.json

\* C23: every blob the submit flow hands to uploadToIPFS, and every blob
\* pinned in the Content Store, is an encrypted blob: none holds the amount
\* in plaintext, also when the SDK initialization or the encryption failed.
C23_OnlyCiphertextUploaded ==
  /\ submission.pc \in {"uploading", "attesting"} => IsEncryptedBlob(submission.blob)
  /\ \A p \in pinned : IsEncryptedBlob(p.content)

(***************************************************************************)
(* Properties of the backfill scan (checked under SpecBackfill, where      *)
(* every event is emitted while the listener is not running).              *)
(***************************************************************************)
\* start() has returned after its backfill scan, every handler has returned
\* and nothing failed: no RPC error, no persistence error
BackfillCompleted ==
  /\ <<"log", "Historical events processed", "">> \in console
  /\ scans = {}
  /\ handlers = EmptyBag
  /\ \A l \in console : l[1] # "error"

\* the table holds a confirmed row for the cid of event e
HasConfirmedRow(e) == \E r \in expenses : r.cid = e.cid /\ r.status = "confirmed"

\* C13 as stated: once start() and its backfill scan have completed without
\* a failure, every event emitted while the listener was not running has a
\* confirmed row for its cid.
C13_DowntimeEventsIndexed ==
  BackfillCompleted =>
    \A i \in 1..Len(AttestEvents) : HasConfirmedRow(AttestEvents[i])

\* C13 amended: once start() and its backfill scan have completed without a
\* failure, every event emitted while the listener was not running in one
\* of the last 10 blocks up to the chain's height has a confirmed row for
\* its cid; an older event is not looked at.
C13_RecentDowntimeEventsIndexed ==
  BackfillCompleted =>
    \A i \in 1..Len(AttestEvents) :
      AttestEvents[i].blockNumber >= blockNumber - BackfillWindow =>
        HasConfirmedRow(AttestEvents[i])

\* C13 witness: after a completed backfill the event in the first block of
\* the window has its confirmed row, and an event one block older, of
\* another cid, has none
C13_Witness ==
  /\ BackfillCompleted
  /\ Len(AttestEvents) = 2
  /\ AttestEvents[2].blockNumber = blockNumber - BackfillWindow
  /\ AttestEvents[1].blockNumber = blockNumber - BackfillWindow - 1
  /\ HasConfirmedRow(AttestEvents[2])
  /\ ~HasConfirmedRow(AttestEvents[1])

(***************************************************************************)
(* Properties of the listener's life cycle (checked under SpecLifecycle).  *)
(***************************************************************************)
\* the step is a call of start() on a listener that is not running
StartCalledWhenStopped == startCount' # startCount /\ ~running

StoppedOnce == <<"log", "Ethereum listener stopped", "">> \in console

\* C12: once stop() has taken effect the listener never runs again: no step
\* sets state.running, registers a listener or begins a backfill scan.
C12_StoppedIsFinal ==
  [][ StoppedOnce =>
        /\ ~running'
        /\ listeners' \subseteq listeners
        /\ {sc.id : sc \in scans'} \subseteq {sc.id : sc \in scans} ]_vars

\* the step emits an ExpenseAttested event
EmitsAttested ==
  /\ Len(eventLog') > Len(eventLog)
  /\ eventLog'[Len(eventLog')].name = "ExpenseAttested"

\* how often the queue q holds event ev for the listener of contract c
Pending(q, c, ev) == Cardinality({i \in 1..Len(q) : q[i] = [sub |-> c, ev |-> ev]})

C9_NoHandlerBeginsWhenStopped ==
  [][ HandlerBegins => running ]_vars

\* C10: start() on a running listener registers no listener, starts no scan
\* and raises no error (it logs and returns), and at no time does more than
\* one Contract object hold an ExpenseAttested listener.
C10_StartWhileRunningNoOp ==
  /\ [](Cardinality(listeners) <= 1)
  /\ [][ (startCount' # startCount /\ running) =>
           /\ UNCHANGED <<running, provider, contract, contractsMade, listeners,
                          liveQueue, scans, handlers, delivered, expenses>>
           /\ console' = console \cup {<<"log", "Listener already running", "">>} ]_vars

\* C10 witness: start() has been called on the running listener, which still
\* has its one listener
C10_Witness ==
  /\ running
  /\ <<"log", "Listener already running", "">> \in console
  /\ listeners = {contract}

====
